---- MODULE Spec2Model ----
(***************************************************************************)
(* Model of the BlueKing IAM SaaS policy authorization core:               *)
(*   - GroupBiz.grant and its helpers        (backend/biz/group.py)        *)
(*   - PolicyOperationService.alter          (backend/service/policy/      *)
(*                                            operation.py)                *)
(*   - ApplicationDataTrans._gen_need_apply_policy_list                    *)
(*                                           (backend/trans/application.py)*)
(*   - GroupBiz.delete, update_policies, create_and_add_members,           *)
(*     batch_create and GroupCheckBiz        (backend/biz/group.py)        *)
(*   - PolicyOperationService.delete_by_ids  (backend/service/policy/      *)
(*                                            operation.py)                *)
(*   - ActionCheckBiz.check                  (backend/biz/action.py)       *)
(*   - GroupBiz.check_update_policies_resource_name                        *)
(*                                           (backend/biz/group.py)        *)
(*   - RoleTrans.from_role_data              (backend/trans/role.py)       *)
(*   - ResourceIDNameCache and ResourceProvider.fetch_instance_name        *)
(*                                           (backend/service/resource.py) *)
(* Tables are sets of rows carrying their auto-increment primary key, so   *)
(* that two rows with equal business columns stay two rows.                *)
(***************************************************************************)
EXTENDS Integers, Sequences, FiniteSets, TLC

\* ------------------------------------------------------------------ bounds
\* longest list of GroupTemplateGrantBean handed to one GroupBiz.grant call
MaxBatch == 2
\* number of PolicyOperationService.alter calls in one behaviour
MaxAlterCalls == 2
\* number of resource instances a policy may name
MaxInstances == 2
\* longest related_resource_types list of a submitted ActionForCheck
MaxResourceTypes == 2
\* number of groups created in one behaviour
MaxCreated == 1

\* ------------------------------------------------------- program constants
\* backend.common.time.PERMANENT_SECONDS is 4102444800 (2100-01-01); the
\* model keeps only its order relative to the other timestamps it uses.
PERMANENT_SECONDS == 400

\* ------------------------------------------------------------ value domains
Procs == {"r1", "r2"}            \* two request handlers
GROUP == "group"                 \* SubjectType.GROUP.value
USER == "user"                   \* SubjectType.USER.value
TemplateIds == {3, 9}            \* non-zero template ids; 0 is "custom"
Actions == {"view", "edit"}
X == "X"
Y == "Y"
InstanceNames == <<X, Y, "Z", "W">>
Instances == {InstanceNames[i] : i \in 1..MaxInstances}

\* the actions each permission template defines (TemplateCheckBiz data)
TemplateActions == (3 :> {"view", "edit"}) @@ (9 :> {"view"})

Subject(type, id) == [type |-> type, id |-> id]

\* PolicyBean as far as the modelled code reads it
Bean(a, r, e) == [action_id |-> a, policy_id |-> 0, resources |-> r, expired_at |-> e]

\* position of an action among the rows one bulk insert writes
ActionNo == ("view" :> 1) @@ ("edit" :> 2)

\* GroupTemplateGrantBean
GroupTemplateGrantBean(s, t, ps) == [system_id |-> s, template_id |-> t, policies |-> ps]

SeqsUpTo(S, n) == UNION {[1..k -> S] : k \in 1..n}

VARIABLES
    \* ---- storage
    locks,          \* GroupAuthorizeLock table
    tasks,          \* TaskDetail table
    delayed,        \* ids handed to TaskFactory().delay
    preUpdateLocks, \* template ids holding a PermTemplatePreUpdateLock
    policies,       \* mirror Policy table
    backend,        \* policies held by the backend store
    seq,            \* primary-key / uuid generators
    \* ---- one GroupBiz.grant call per request handler
    pc, group, templates, idx, built, uuid, task, err,
    \* ---- one PolicyOperationService.alter call
    alt,
    \* ---- one ApplicationDataTrans._gen_need_apply_policy_list call
    app,
    \* ---- Group table (ids of the groups that exist), one GroupBiz.delete call
    groups, del,
    \* ---- one call of a checker (GroupCheckBiz, ActionCheckBiz)
    chk,
    \* ---- the Redis id-name cache of one resource type, one
    \*      ResourceProvider.fetch_instance_name call
    id_name_cache, fetch

vars == <<locks, tasks, delayed, preUpdateLocks, policies, backend, seq,
          pc, group, templates, idx, built, uuid, task, err, alt, app,
          groups, del, chk, id_name_cache, fetch>>

NoErr == [stage |-> "", code |-> "", msg |-> ""]
Err(stage, code, msg) == [stage |-> stage, code |-> code, msg |-> msg]

\* no GroupBiz.delete call and no checker call under way
DelIdle == [pc |-> "idle", group_id |-> 0, err |-> NoErr]

ChkIdle == [pc |-> "idle", op |-> "", input |-> <<>>, err |-> NoErr]

\* Python's None, where a name is expected
NONE == "<None>"

\* display names a resource provider gives; the empty string is one
DisplayNames == {"", "n1"}

\* an empty Redis: no key of any resource id
EmptyCache == [id \in Instances |-> NONE]

\* no fetch_instance_name call under way
FetchIdle ==
    [pc |-> "idle", ids |-> <<>>, get_error |-> FALSE, set_error |-> FALSE,
     cache_id_name_map |-> <<>>, not_cached_ids |-> <<>>, provider |-> <<>>,
     provider_error |-> FALSE, results |-> <<>>]

\* ------------------------------------------------------------------ queries
\* PolicyQueryService.new_policy_list_by_subject: the subject's mirror rows
\* of one system, looked up by action id through PolicyList.get
new_policy_list_by_subject(system_id, subject) ==
    {r \in policies : r.system_id = system_id /\ r.subject_type = subject.type
                                              /\ r.subject_id = subject.id}

PolicyListGet(policy_list, action_id) == {r \in policy_list : r.action_id = action_id}

\* ---------------------------------------------------- GroupBiz._check_before_grant
template_ids(ts) == {ts[i].template_id : i \in {j \in DOMAIN ts : ts[j].template_id # 0}}

custom_action_system_ids(ts) == {ts[i].system_id : i \in {j \in DOMAIN ts : ts[j].template_id = 0}}

\* a check that looks for any pre-update lock at all
PreUpdateLockExists_anyTemplate(ts) == preUpdateLocks # {}

PreUpdateLockExists(ts) == \E t \in preUpdateLocks : t \in template_ids(ts)

\* the filter without its group_id term
AuthorizeLockExists_anyGroup(g, ts) ==
    \E l \in locks :
        \/ l.template_id \in template_ids(ts)
        \/ (l.template_id = 0 /\ l.system_id \in custom_action_system_ids(ts))

\* the filter without its template_id__in term
AuthorizeLockExists_customOnly(g, ts) ==
    \E l \in locks :
        /\ l.group_id = g
        /\ l.template_id = 0 /\ l.system_id \in custom_action_system_ids(ts)

AuthorizeLockExists(g, ts) ==
    \E l \in locks :
        /\ l.group_id = g
        /\ \/ l.template_id \in template_ids(ts)
           \/ (l.template_id = 0 /\ l.system_id \in custom_action_system_ids(ts))

check_before_grant(g, ts) ==
    IF PreUpdateLockExists(ts) THEN Err("pre_check", "VALIDATE_ERROR", "template updating")
    ELSE IF AuthorizeLockExists(g, ts) THEN Err("pre_check", "VALIDATE_ERROR", "already authorizing")
    ELSE NoErr

\* ------------------------------------------ GroupBiz._valid_grant_actions_not_exists
\* the check left out: an entry for a held action would go on to update it
valid_grant_actions_not_exists_skipped(subject, system_id, action_ids) == NoErr

valid_grant_actions_not_exists(subject, system_id, action_ids) ==
    LET policy_list == new_policy_list_by_subject(system_id, subject) IN
    IF \E a \in action_ids : PolicyListGet(policy_list, a) # {}
    THEN Err("validation", "VALIDATE_ERROR", "action exists")
    ELSE NoErr

\* TemplateCheckBiz.check_add_member: the requested actions are the template's
check_add_member(template_id, subject, action_ids) ==
    IF action_ids = TemplateActions[template_id] THEN NoErr
    ELSE Err("validation", "VALIDATE_ERROR", "template actions differ")

\* --------------------------------------------------------- GroupBiz._gen_grant_lock
\* the first check of _gen_grant_lock: template match or add-only
gen_grant_lock_action_check(subject, t) ==
    LET action_ids == {b.action_id : b \in t.policies} IN
    IF t.template_id # 0 THEN check_add_member(t.template_id, subject, action_ids)
    ELSE valid_grant_actions_not_exists(subject, t.system_id, action_ids)

\* the loop of lines 460-461 left out: the policies keep what was submitted
set_expired_at_asSubmitted(ps, e) == ps

\* p.set_expired_at(PERMANENT_SECONDS) for p in template.policies
set_expired_at(ps, e) == {[b EXCEPT !.expired_at = e] : b \in ps}

\* lines 463-467: the lock is returned to grant, which saves the whole batch
\* later; _gen_grant_lock itself leaves the table alone
gen_grant_lock_table_saved(table, lock) ==
    table \cup {lock @@ [id |-> 0 - Cardinality(table) - 1]}

gen_grant_lock_table(table, lock) == table

\* lines 459-467: the entry's policies go into the lock's data; the mirror
\* Policy table is not written
\* the policies written to the mirror on the spot
gen_grant_lock_policies_created(tbl, subject, t) ==
    tbl \cup {[id |-> 0 - (Cardinality(tbl) * Cardinality(Actions) + ActionNo[b.action_id]),
                system_id |-> t.system_id, subject_type |-> subject.type,
                subject_id |-> subject.id, action_id |-> b.action_id, policy_id |-> 0,
                resources |-> b.resources] : b \in t.policies}

gen_grant_lock_policies(tbl, subject, t) == tbl

\* a key made per entry instead of the call's uuid
new_lock_ownKey(subject, t, key) ==
    [template_id |-> t.template_id, group_id |-> subject.id, system_id |-> t.system_id,
     key |-> 100 * key + t.template_id, data |-> set_expired_at(t.policies, PERMANENT_SECONDS)]

\* the lock built at the end of _gen_grant_lock (not yet saved)
new_lock(subject, t, key) ==
    [template_id |-> t.template_id, group_id |-> subject.id, system_id |-> t.system_id,
     key |-> key, data |-> set_expired_at(t.policies, PERMANENT_SECONDS)]

\* ------------------------------------------------------------ storage writes
\* GroupAuthorizeLock.objects.bulk_create: one row per lock, fresh primary
\* keys, no uniqueness rule on (group_id, template_id, system_id)
bulk_create(table, ls, first) ==
    table \cup {[ls[i] EXCEPT !.id = first + i] : i \in DOMAIN ls}

\* TaskDetail.create(type, args)
TaskDetail_create(table, id, type, args) ==
    table \cup {[id |-> id, type |-> type, args |-> args]}

\* "with transaction.atomic()": the block's writes are kept when it ends
\* normally and dropped when a statement in it raises
\* the two writes made without the transaction: a failed TaskDetail.create
\* leaves the lock rows behind
atomic_none(outcome, before, after) ==
    IF outcome = "ok" THEN after
    ELSE IF outcome = "task_create_error" THEN [before EXCEPT !.locks = after.locks]
    ELSE before

atomic(outcome, before, after) == IF outcome = "ok" THEN after ELSE before

TxOutcomes == {"ok", "lock_insert_error", "task_create_error"}

\* --------------------------------------------------------------- GroupBiz.grant
\* gen_uuid(): a key no earlier call was given
gen_uuid(s) == s.uuid + 1

GrantSubject(p) == Subject(GROUP, group[p])

\* The handler's locals (templates, built) exist while the call runs; the
\* step that ends the call drops them.
\* lines 473-479: the pre-check, then gen_uuid()
CheckBeforeGrant(p, Gs, Es) ==
    /\ pc[p] = "idle"
    /\ \E g \in Gs, ts \in SeqsUpTo(Es, MaxBatch) :
          LET e == check_before_grant(g, ts) IN
          /\ group' = [group EXCEPT ![p] = g]
          /\ templates' = [templates EXCEPT ![p] = IF e = NoErr THEN ts ELSE <<>>]
          /\ IF e = NoErr
             THEN /\ pc' = [pc EXCEPT ![p] = "gen"]
                  /\ uuid' = [uuid EXCEPT ![p] = gen_uuid(seq)]
                  /\ seq' = [seq EXCEPT !.uuid = gen_uuid(seq)]
                  /\ idx' = [idx EXCEPT ![p] = 1]
                  /\ err' = err
             ELSE /\ pc' = [pc EXCEPT ![p] = "failed"]
                  /\ err' = [err EXCEPT ![p] = e]
                  /\ UNCHANGED <<groups, del, chk, uuid, seq, idx>>
    /\ UNCHANGED <<id_name_cache, fetch, groups, del, chk, locks, tasks, delayed, preUpdateLocks, policies, backend, built, task, alt, app>>


\* lines 480-483, one turn of the loop: _gen_grant_lock for templates[idx].
\* check_resource_name and RoleAuthorizationScopeChecker.check_policies ask
\* the resource provider and the role's scope: either may raise.
GenGrantLock(p) ==
    /\ pc[p] = "gen"
    /\ LET t == templates[p][idx[p]]
           e == gen_grant_lock_action_check(GrantSubject(p), t) IN
       \E nameOk \in BOOLEAN, scopeOk \in BOOLEAN :
          IF e # NoErr \/ ~nameOk \/ ~scopeOk
          THEN /\ pc' = [pc EXCEPT ![p] = "failed"]
               /\ err' = [err EXCEPT ![p] =
                             IF e # NoErr THEN e
                             ELSE Err("validation", "VALIDATE_ERROR",
                                      IF ~nameOk THEN "resource name" ELSE "role scope")]
               /\ templates' = [templates EXCEPT ![p] = <<>>]
               /\ built' = [built EXCEPT ![p] = <<>>]
               /\ idx' = idx
          ELSE /\ templates' = [templates EXCEPT ![p][idx[p]].policies =
                                    set_expired_at(@, PERMANENT_SECONDS)]
               /\ built' = [built EXCEPT ![p] = Append(@, new_lock(GrantSubject(p), t, uuid[p]))]
               /\ idx' = [idx EXCEPT ![p] = @ + 1]
               /\ pc' = [pc EXCEPT ![p] = IF idx[p] = Len(templates[p]) THEN "commit" ELSE "gen"]
               /\ err' = err
    /\ locks' = IF pc'[p] = "failed" THEN locks
                ELSE gen_grant_lock_table(locks, new_lock(GrantSubject(p), templates[p][idx[p]], uuid[p]))
    /\ policies' = IF pc'[p] = "failed" THEN policies
                   ELSE gen_grant_lock_policies(policies, GrantSubject(p), templates[p][idx[p]])
    /\ UNCHANGED <<id_name_cache, fetch, groups, del, chk, tasks, delayed, preUpdateLocks, backend, seq, group, uuid, task, alt, app>>

\* lines 485-487: bulk_create of the locks and TaskDetail.create in one
\* transaction
CommitLocks(p) ==
    /\ pc[p] = "commit"
    /\ \E outcome \in TxOutcomes :
          LET tid == seq.task + 1
              after == [locks |-> bulk_create(locks, [i \in DOMAIN built[p] |->
                                                      built[p][i] @@ [id |-> 0]], seq.lock),
                        tasks |-> TaskDetail_create(tasks, tid, "group_authorization",
                                                    <<GrantSubject(p), uuid[p]>>)]
              kept == atomic(outcome, [locks |-> locks, tasks |-> tasks], after) IN
          /\ locks' = kept.locks
          /\ tasks' = kept.tasks
          /\ IF outcome = "ok"
             THEN /\ pc' = [pc EXCEPT ![p] = "dispatch"]
                  /\ task' = [task EXCEPT ![p] = tid]
                  /\ seq' = [seq EXCEPT !.task = tid, !.lock = @ + Len(built[p])]
                  /\ err' = err
                  /\ UNCHANGED <<groups, del, chk, templates, built>>
             ELSE /\ pc' = [pc EXCEPT ![p] = "failed"]
                  /\ err' = [err EXCEPT ![p] = Err("commit", "DB_ERROR", outcome)]
                  /\ templates' = [templates EXCEPT ![p] = <<>>]
                  /\ built' = [built EXCEPT ![p] = <<>>]
                  /\ UNCHANGED <<groups, del, chk, task, seq>>
    /\ UNCHANGED <<id_name_cache, fetch, groups, del, chk, delayed, preUpdateLocks, policies, backend, group, idx, uuid, alt, app>>

\* a delay that raises taking the rows of the call with it, as it would
\* inside the transaction
dispatch_failed_rolledBack(db, key) ==
    [locks |-> {l \in db.locks : l.key # key},
     tasks |-> {t \in db.tasks : t.args[2] # key}]

\* line 490 stands after the "with transaction.atomic()" block of 485-487:
\* when delay raises, the rows the block committed stay
dispatch_failed(db, key) == db

\* line 490: TaskFactory().delay(task.id); the broker may refuse the message
Dispatch(p) ==
    /\ pc[p] = "dispatch"
    /\ \E sent \in BOOLEAN :
          IF sent
          THEN /\ delayed' = delayed \cup {task[p]}
               /\ pc' = [pc EXCEPT ![p] = "done"]
               /\ err' = err
          ELSE /\ delayed' = delayed
               /\ pc' = [pc EXCEPT ![p] = "failed"]
               /\ err' = [err EXCEPT ![p] = Err("dispatch", "BROKER_ERROR", "delay")]
    /\ locks' = IF pc'[p] = "failed"
                THEN dispatch_failed([locks |-> locks, tasks |-> tasks], uuid[p]).locks
                ELSE locks
    /\ tasks' = IF pc'[p] = "failed"
                THEN dispatch_failed([locks |-> locks, tasks |-> tasks], uuid[p]).tasks
                ELSE tasks
    /\ templates' = [templates EXCEPT ![p] = <<>>]
    /\ built' = [built EXCEPT ![p] = <<>>]
    /\ UNCHANGED <<id_name_cache, fetch, groups, del, chk, preUpdateLocks, policies, backend, seq,
                   group, idx, uuid, task, alt, app>>

\* ------------------------------------------------- PolicyOperationService (mirror)
\* Policy.to_db_model: a mirror row for one policy; a new policy carries the
\* placeholder policy_id 0
to_db_model(p, system_id, subject, id) ==
    [id |-> id, system_id |-> system_id, subject_type |-> subject.type,
     subject_id |-> subject.id, action_id |-> p.action_id, policy_id |-> p.policy_id,
     resources |-> p.resources]

OfSubject(r, system_id, subject) ==
    r.system_id = system_id /\ r.subject_type = subject.type /\ r.subject_id = subject.id

\* _create_db_policies: bulk_create of the new rows
create_db_policies(tbl, system_id, subject, ps, first) ==
    tbl \cup {to_db_model(p, system_id, subject, first + ActionNo[p.action_id]) : p \in ps}

\* _update_db_policies: rows of the subject whose policy_id is one of the
\* updated policies' ids get the resources of the updated policy found by
\* PolicyList.get(action_id); rows it does not find stay as they are
update_db_policies(tbl, system_id, subject, ps) ==
    LET ids == {p.policy_id : p \in ps}
        hit(r) == OfSubject(r, system_id, subject) /\ r.policy_id \in ids
        found(r) == {p \in ps : p.action_id = r.action_id} IN
    {IF hit(r) /\ found(r) # {}
     THEN [r EXCEPT !.resources = (CHOOSE p \in found(r) : TRUE).resources]
     ELSE r : r \in tbl}

\* a filter on policy_id alone
delete_db_policies_byIdOnly(tbl, system_id, subject, policy_ids) ==
    {r \in tbl : r.policy_id \notin policy_ids}

\* _delete_db_policies
delete_db_policies(tbl, system_id, subject, policy_ids) ==
    {r \in tbl : ~(OfSubject(r, system_id, subject) /\ r.policy_id \in policy_ids)}

\* iam.alter_policies as the backend applies it: created policies get fresh
\* identifiers (one policy per subject and action), updated ones new
\* resources, deleted ones go
backend_alter_policies(bk, system_id, subject, create, update, delete_ids, first) ==
    LET created == {a \in Actions : \E p \in create : p.action_id = a}
        kept == {b \in bk : ~(OfSubject(b, system_id, subject)
                               /\ (b.id \in delete_ids \/ b.action_id \in created))}
        patched == {IF OfSubject(b, system_id, subject) /\ \E p \in update : p.policy_id = b.id
                    THEN [b EXCEPT !.resources =
                            (CHOOSE p \in update : p.policy_id = b.id).resources]
                    ELSE b : b \in kept} IN
    patched \cup {[id |-> first + ActionNo[p.action_id], system_id |-> system_id,
                   subject_type |-> subject.type, subject_id |-> subject.id,
                   action_id |-> p.action_id, resources |-> p.resources,
                   expired_at |-> p.expired_at] : p \in create}

\* new_backend_policy_list_by_subject(...).get(action_id)
backend_policy_get(bk, system_id, subject, action_id) ==
    {b \in bk : OfSubject(b, system_id, subject) /\ b.action_id = action_id}

\* the query of lines 120-122 without its policy_id=0 term
sync_db_policy_id_everyRow(tbl, bk, system_id, subject) ==
    {IF OfSubject(r, system_id, subject)
        /\ backend_policy_get(bk, system_id, subject, r.action_id) # {}
     THEN [r EXCEPT !.policy_id =
             (CHOOSE b \in backend_policy_get(bk, system_id, subject, r.action_id) : TRUE).id]
     ELSE r : r \in tbl}

\* _sync_db_policy_id: rows of the subject with policy_id 0 take the id of
\* the backend policy of their action, when there is one
sync_db_policy_id(tbl, bk, system_id, subject) ==
    {IF OfSubject(r, system_id, subject) /\ r.policy_id = 0
        /\ backend_policy_get(bk, system_id, subject, r.action_id) # {}
     THEN [r EXCEPT !.policy_id =
             (CHOOSE b \in backend_policy_get(bk, system_id, subject, r.action_id) : TRUE).id]
     ELSE r : r \in tbl}

IdStride == Cardinality(Actions)

\* the mirror writes made outside a transaction
rollback_none(before, tx) == tx

\* "with transaction.atomic()" left by an exception: the mirror is what it
\* was before the block
rollback(before, tx) == before

\* ------------------------------------------------- PolicyOperationService.alter
AlterSystems == {"s1"}
AlterSubjects == {Subject(USER, "u1")}

\* policies a caller asks alter to create
CreateBeans == {Bean(a, {X}, 200) : a \in Actions}

\* policies of the subject the backend knows, as a caller would update them
UpdateBeans(system_id, subject) ==
    {[action_id |-> b.action_id, policy_id |-> b.id, resources |-> {X, Y},
      expired_at |-> b.expired_at] : b \in {x \in backend : OfSubject(x, system_id, subject)}}

KnownIds(system_id, subject) == {b.id : b \in {x \in backend : OfSubject(x, system_id, subject)}}

BackendOutcomes == {"ok", "error", "timeout_not_applied", "timeout_applied"}

AltIdle ==
    [pc |-> "idle", system_id |-> "", subject |-> Subject("", ""), create |-> {},
     update |-> {}, delete_ids |-> {}, tx |-> {}, before |-> [policies |-> {}, backend |-> {}],
     expect |-> {}, outcome |-> "", synced |-> FALSE, stage |-> ""]

\* the transaction entered and the backend called with no mirror write made
alter_tx_writes_afterBackend(tbl, system_id, subject, create, update, delete_ids, first) == tbl

\* lines 48-55: the mirror writes of alter, made in this order inside the
\* transaction before line 58 calls the backend
alter_tx_writes(tbl, system_id, subject, create, update, delete_ids, first) ==
    LET t1 == IF create # {}
              THEN create_db_policies(tbl, system_id, subject, create, first)
              ELSE tbl
        t2 == IF update # {} THEN update_db_policies(t1, system_id, subject, update) ELSE t1 IN
    IF delete_ids # {} THEN delete_db_policies(t2, system_id, subject, delete_ids) ELSE t2

\* lines 43-55: the arguments, then the mirror writes inside the transaction
AlterBegin ==
    /\ alt.pc = "idle"
    /\ seq.alter < MaxAlterCalls
    /\ \E system_id \in AlterSystems, subject \in AlterSubjects :
       \E create \in SUBSET CreateBeans,
          update \in SUBSET UpdateBeans(system_id, subject),
          delete_ids \in SUBSET KnownIds(system_id, subject) :
          LET t3 == alter_tx_writes(policies, system_id, subject, create, update, delete_ids,
                                    seq.policy) IN
          /\ alt' = [pc |-> "tx", system_id |-> system_id, subject |-> subject,
                     create |-> create, update |-> update, delete_ids |-> delete_ids,
                     tx |-> t3, before |-> [policies |-> policies, backend |-> backend],
                     expect |-> backend, outcome |-> "", synced |-> FALSE, stage |-> ""]
          /\ seq' = [seq EXCEPT !.alter = @ + 1, !.policy = @ + IdStride]
    /\ UNCHANGED <<id_name_cache, fetch, groups, del, chk, locks, tasks, delayed, preUpdateLocks, policies, backend,
                   pc, group, templates, idx, built, uuid, task, err, app>>

\* lines 57-58: _alter_backend_policies inside the transaction.  A failed
\* call raises and the transaction rolls back; a timed-out call raises too,
\* whether or not the backend has applied the request.
AlterBackend ==
    /\ alt.pc = "tx"
    /\ IF alt.create = {} /\ alt.update = {} /\ alt.delete_ids = {}
       THEN /\ alt' = [alt EXCEPT !.pc = "commit"]
            /\ UNCHANGED <<groups, del, chk, backend, policies, seq>>
       ELSE \E outcome \in BackendOutcomes :
            LET applied == backend_alter_policies(backend, alt.system_id, alt.subject,
                               alt.create, alt.update, alt.delete_ids, seq.backend) IN
            /\ backend' = IF outcome \in {"ok", "timeout_applied"} THEN applied ELSE backend
            /\ seq' = [seq EXCEPT !.backend = @ + IdStride]
            /\ IF outcome = "ok"
               THEN /\ alt' = [alt EXCEPT !.pc = "commit", !.outcome = outcome, !.expect = applied]
                    /\ policies' = policies
               ELSE /\ alt' = [alt EXCEPT !.pc = "failed", !.outcome = outcome,
                                          !.expect = applied, !.stage = "backend"]
                    /\ policies' = rollback(policies, alt.tx)
    /\ UNCHANGED <<id_name_cache, fetch, groups, del, chk, locks, tasks, delayed, preUpdateLocks,
                   pc, group, templates, idx, built, uuid, task, err, app>>

\* line 47, leaving the block: COMMIT, which the database may refuse
AlterCommit ==
    /\ alt.pc = "commit"
    /\ \E committed \in BOOLEAN :
          IF committed
          THEN /\ policies' = alt.tx
               /\ alt' = [alt EXCEPT !.pc = IF alt.create # {} THEN "sync" ELSE "done"]
          ELSE /\ policies' = rollback(policies, alt.tx)
               /\ alt' = [alt EXCEPT !.pc = "failed", !.stage = "commit"]
    /\ UNCHANGED <<id_name_cache, fetch, groups, del, chk, locks, tasks, delayed, preUpdateLocks, backend, seq,
                   pc, group, templates, idx, built, uuid, task, err, app>>

\* lines 60-61: _sync_db_policy_id after the transaction; its backend query
\* may fail
AlterSync ==
    /\ alt.pc = "sync"
    /\ \E fetched \in BOOLEAN :
          IF fetched
          THEN /\ policies' = sync_db_policy_id(policies, backend, alt.system_id, alt.subject)
               /\ alt' = [alt EXCEPT !.pc = "done", !.synced = TRUE]
          ELSE /\ policies' = policies
               /\ alt' = [alt EXCEPT !.pc = "failed", !.stage = "sync"]
    /\ UNCHANGED <<id_name_cache, fetch, groups, del, chk, locks, tasks, delayed, preUpdateLocks, backend, seq,
                   pc, group, templates, idx, built, uuid, task, err, app>>

\* the call has returned or raised; the caller may call again
AlterReturn ==
    /\ alt.pc \in {"done", "failed"}
    /\ alt' = AltIdle
    /\ UNCHANGED <<id_name_cache, fetch, groups, del, chk, locks, tasks, delayed, preUpdateLocks, policies, backend, seq,
                   pc, group, templates, idx, built, uuid, task, err, app>>

\* ------------------------------------------- PolicyOperationService.delete_by_ids
\* iam.delete_policies as the backend applies it
backend_delete_policies(bk, system_id, subject, policy_ids) ==
    {b \in bk : ~(OfSubject(b, system_id, subject) /\ b.id \in policy_ids)}

DeleteSystems == {"s1", "s2"}
DeleteSubjects == {Subject(USER, "u1"), Subject(GROUP, 7)}

\* the policies held when delete_by_ids is called; the backend gives every
\* policy its own id and the mirror row carries it
HeldRow(id, system_id, subject, action_id) ==
    [id |-> id, system_id |-> system_id, subject_type |-> subject.type,
     subject_id |-> subject.id, action_id |-> action_id, resources |-> {X},
     expired_at |-> PERMANENT_SECONDS]

HeldRows ==
    {HeldRow(1, "s1", Subject(USER, "u1"), "view"), HeldRow(2, "s1", Subject(USER, "u1"), "edit"),
     HeldRow(3, "s2", Subject(USER, "u1"), "view"), HeldRow(4, "s1", Subject(GROUP, 7), "view")}

MirrorRow(b) ==
    to_db_model([action_id |-> b.action_id, policy_id |-> b.id, resources |-> b.resources],
                b.system_id, Subject(b.subject_type, b.subject_id), b.id)

\* lines 28-29: the mirror delete inside the transaction
DeleteByIdsBegin ==
    /\ alt.pc = "idle"
    /\ seq.alter < MaxAlterCalls
    /\ \E system_id \in DeleteSystems, subject \in DeleteSubjects,
          policy_ids \in SUBSET {b.id : b \in backend} :
          /\ policy_ids # {}
          /\ alt' = [AltIdle EXCEPT
                       !.pc = "del_tx", !.system_id = system_id, !.subject = subject,
                       !.delete_ids = policy_ids,
                       !.tx = delete_db_policies(policies, system_id, subject, policy_ids),
                       !.before = [policies |-> policies, backend |-> backend],
                       !.expect = backend_delete_policies(backend, system_id, subject, policy_ids)]
    /\ seq' = [seq EXCEPT !.alter = @ + 1]
    /\ UNCHANGED <<id_name_cache, fetch, locks, tasks, delayed, preUpdateLocks, policies, backend, pc, group,
                   templates, idx, built, uuid, task, err, app, groups, del, chk>>

\* line 30: iam.delete_policies inside the transaction; a failed or timed-out
\* call raises and the transaction rolls back
DeleteByIdsBackend ==
    /\ alt.pc = "del_tx"
    /\ \E outcome \in BackendOutcomes :
          /\ backend' = IF outcome \in {"ok", "timeout_applied"} THEN alt.expect ELSE backend
          /\ IF outcome = "ok"
             THEN /\ alt' = [alt EXCEPT !.pc = "del_commit", !.outcome = outcome]
                  /\ policies' = policies
             ELSE /\ alt' = [alt EXCEPT !.pc = "failed", !.outcome = outcome, !.stage = "backend"]
                  /\ policies' = rollback(policies, alt.tx)
    /\ UNCHANGED <<id_name_cache, fetch, locks, tasks, delayed, preUpdateLocks, seq, pc, group,
                   templates, idx, built, uuid, task, err, app, groups, del, chk>>

\* line 28, leaving the block: COMMIT, which the database may refuse
DeleteByIdsCommit ==
    /\ alt.pc = "del_commit"
    /\ \E committed \in BOOLEAN :
          IF committed
          THEN /\ policies' = alt.tx
               /\ alt' = [alt EXCEPT !.pc = "done"]
          ELSE /\ policies' = rollback(policies, alt.tx)
               /\ alt' = [alt EXCEPT !.pc = "failed", !.stage = "commit"]
    /\ UNCHANGED <<id_name_cache, fetch, locks, tasks, delayed, preUpdateLocks, backend, seq, pc, group,
                   templates, idx, built, uuid, task, err, app, groups, del, chk>>

\* ------------------------------ ApplicationDataTrans._gen_need_apply_policy_list
\* PolicyQueryBiz.new_policy_list: the subject's policies as the backend
\* holds them, with their expiration
new_policy_list(system_id, subject) ==
    {[action_id |-> b.action_id, policy_id |-> b.id, resources |-> b.resources,
      expired_at |-> b.expired_at] : b \in {x \in backend : OfSubject(x, system_id, subject)}}

\* PolicyBeanList.get(action_id): the policy of that action, or none
BeanListGet(policy_list, action_id) == {q \in policy_list : q.action_id = action_id}

\* PolicyBeanList.sub: each policy of self without the instances the policy
\* of the same action in other holds; kept whole when other has none,
\* dropped when nothing is left
sub(self, other) ==
    LET rest(q) == LET o == BeanListGet(other, q.action_id) IN
                   IF o = {} THEN q.resources
                   ELSE q.resources \ (CHOOSE x \in o : TRUE).resources IN
    {[q EXCEPT !.resources = rest(q)] : q \in {x \in self : rest(x) # {}}}

\* the instances a policy list names
InstancesOf(policy_list) == UNION {q.resources : q \in policy_list}

\* PolicyBeanList.check_resource_name: fails when an instance of the list
\* carries a name other than the one the resource provider gives it; renamed
\* is the set of instances whose submitted name is no longer the provider's
check_resource_name(policy_list, renamed) ==
    IF InstancesOf(policy_list) \cap renamed # {}
    THEN Err("validation", "VALIDATE_ERROR", "resource name")
    ELSE NoErr

\* PolicyBean.is_expired
is_expired(q, now) == q.expired_at <= now

\* only what the diff holds of the policy goes into the application
need_apply_whole_diffOnly(q, diff_policy) == diff_policy

\* lines 60-62: the old policy missing or expired: the requested policy goes
\* into the application as submitted
need_apply_whole(q, diff_policy) == {q}

\* lines 65-68: no incremental policy and the old one not expired: the
\* requested policy is left out of the application
need_apply_unchanged_requestedAgain(q) == {q}

need_apply_unchanged(q) == {}

\* lines 69-71: the incremental policy takes the old policy's expiration
need_apply_incremental_requestedExpiry(d, old_policy) == d

need_apply_incremental(d, old_policy) == [d EXCEPT !.expired_at = old_policy.expired_at]

\* lines 43-77
gen_need_apply_policy_list(applicant, system_id, policy_list, now, renamed) ==
    LET old_policy_list == new_policy_list(system_id, Subject(USER, applicant))
        diff_policy_list == sub(policy_list, old_policy_list)
        \* one turn of the loop of lines 56-71
        turn(q) ==
            LET old_policy == BeanListGet(old_policy_list, q.action_id)
                diff_policy == BeanListGet(diff_policy_list, q.action_id) IN
            IF old_policy = {} \/ is_expired(CHOOSE o \in old_policy : TRUE, now)
            THEN need_apply_whole(q, diff_policy)
            ELSE IF diff_policy = {} THEN need_apply_unchanged(q)
            ELSE {need_apply_incremental(CHOOSE d \in diff_policy : TRUE,
                                         CHOOSE o \in old_policy : TRUE)}
        application_policies == UNION {turn(q) : q \in policy_list} IN
    IF check_resource_name(diff_policy_list, renamed) # NoErr
    THEN [error |-> "VALIDATE_ERROR", msg |-> "resource name", policies |-> {}]
    ELSE IF application_policies = {}
    THEN [error |-> "INVALID_ARGS", msg |-> "no change", policies |-> {}]
    ELSE [error |-> "", msg |-> "", policies |-> application_policies]

AppIdle ==
    [pc |-> "idle", requested |-> {}, now |-> 0, renamed |-> {},
     result |-> [error |-> "", msg |-> "", policies |-> {}]]

Applicant == "u1"
ApplyGroup == 7
Times == {100}

\* a requested policy list: at most one policy per action
BeanLists(resourceSets, expiredAts) ==
    UNION {{{Bean(a, f[a][1], f[a][2]) : a \in A} : f \in [A -> resourceSets \X expiredAts]} :
              A \in SUBSET Actions}

NonEmptyInstanceSets == SUBSET Instances \ {{}}

\* from_grant_policy_application, step 2
GenNeedApply ==
    /\ app.pc = "idle"
    /\ \E policy_list \in BeanLists(NonEmptyInstanceSets, {300}) \ {{}},
          now \in Times, renamed \in SUBSET Instances :
          app' = [pc |-> "applied", requested |-> policy_list, now |-> now, renamed |-> renamed,
                  result |-> gen_need_apply_policy_list(Applicant, "s1", policy_list, now, renamed)]
    /\ UNCHANGED <<id_name_cache, fetch, groups, del, chk, locks, tasks, delayed, preUpdateLocks, policies, backend, seq,
                   pc, group, templates, idx, built, uuid, task, err, alt>>

\* the add-only check of a custom group grant on the same kind of request
GrantCheck ==
    /\ app.pc = "idle"
    /\ \E policy_list \in BeanLists(NonEmptyInstanceSets, {300}) \ {{}}, now \in Times :
          LET e == valid_grant_actions_not_exists(Subject(GROUP, ApplyGroup), "s1",
                                                  {q.action_id : q \in policy_list}) IN
          app' = [pc |-> "checked", requested |-> policy_list, now |-> now, renamed |-> {},
                  result |-> [error |-> e.code, msg |-> e.msg, policies |-> {}]]
    /\ UNCHANGED <<id_name_cache, fetch, groups, del, chk, locks, tasks, delayed, preUpdateLocks, policies, backend, seq,
                   pc, group, templates, idx, built, uuid, task, err, alt>>

AppReturn ==
    /\ app.pc \in {"applied", "checked"}
    /\ app' = AppIdle
    /\ UNCHANGED <<id_name_cache, fetch, groups, del, chk, locks, tasks, delayed, preUpdateLocks, policies, backend, seq,
                   pc, group, templates, idx, built, uuid, task, err, alt>>

\* ----------------------------------------------- GroupBiz: create, update, delete
\* the groups created before the behaviour starts, and the highest id among
\* them
LockedGroups == {7, 8}

LastGroupId == CHOOSE g \in LockedGroups : \A h \in LockedGroups : h <= g

\* lines 141-145: group_svc.create, the role relation and the members in one
\* transaction; the Group table gives the new row the next id
GroupCreateAndAddMembers ==
    /\ seq.group < LastGroupId + MaxCreated
    /\ \E committed \in BOOLEAN :
          groups' = IF committed THEN groups \cup {seq.group + 1} ELSE groups
    /\ seq' = [seq EXCEPT !.group = @ + 1]
    /\ UNCHANGED <<id_name_cache, fetch, locks, tasks, delayed, preUpdateLocks, policies, backend, pc, group,
                   templates, idx, built, uuid, task, err, alt, app, del, chk>>

\* lines 154-158: group_svc.batch_create, the attributes and the role
\* relations in one transaction
GroupBatchCreate ==
    /\ seq.group < LastGroupId + MaxCreated
    /\ \E k \in 1..(LastGroupId + MaxCreated - seq.group), committed \in BOOLEAN :
          /\ groups' = IF committed THEN groups \cup ((seq.group + 1)..(seq.group + k)) ELSE groups
          /\ seq' = [seq EXCEPT !.group = @ + k]
    /\ UNCHANGED <<id_name_cache, fetch, locks, tasks, delayed, preUpdateLocks, policies, backend, pc, group,
                   templates, idx, built, uuid, task, err, alt, app, del, chk>>

\* PolicyOperationBiz.update: the policies of actions the subject holds are
\* updated, the others created, through PolicyOperationService.alter
policy_operation_update(st, system_id, subject, ps) ==
    LET held == {r \in st.policies : OfSubject(r, system_id, subject)}
        idOf(a) == (CHOOSE r \in held : r.action_id = a).policy_id
        create == {b \in ps : \A r \in held : r.action_id # b.action_id}
        update == {[b EXCEPT !.policy_id = idOf(b.action_id)] :
                      b \in {x \in ps : \E r \in held : r.action_id = x.action_id}}
        m1 == create_db_policies(st.policies, system_id, subject, create, st.seq.policy)
        m2 == update_db_policies(m1, system_id, subject, update)
        b1 == backend_alter_policies(st.backend, system_id, subject, create, update, {},
                                     st.seq.backend) IN
    [policies |-> sync_db_policy_id(m2, b1, system_id, subject), backend |-> b1,
     seq |-> IF create = {} THEN st.seq
             ELSE [st.seq EXCEPT !.policy = @ + IdStride, !.backend = @ + IdStride]]

\* lines 232-241: the name, scope and action checks may raise; a custom
\* update (template_id 0) goes to the policy operation layer, a template
\* update to the template authorization, which this model does not hold
GroupUpdatePolicies(g) ==
    /\ g \in groups
    /\ \E template_id \in {0} \cup TemplateIds, checksOk \in BOOLEAN,
          ps \in {{Bean("view", {X, Y}, 200)}} :
          LET out == policy_operation_update(
                         [policies |-> policies, backend |-> backend, seq |-> seq],
                         "s1", Subject(GROUP, g), set_expired_at(ps, PERMANENT_SECONDS)) IN
          IF checksOk /\ template_id = 0
          THEN /\ policies' = out.policies
               /\ backend' = out.backend
               /\ seq' = out.seq
          ELSE UNCHANGED <<policies, backend, seq>>
    /\ UNCHANGED <<id_name_cache, fetch, locks, tasks, delayed, preUpdateLocks, pc, group,
                   templates, idx, built, uuid, task, err, alt, app, groups, del, chk>>

\* lines 296-306 as far as the tables of this model go, with the lock rows
\* of the group deleted as well
group_delete_tables_withLocks(db, subject) ==
    [locks |-> {l \in db.locks : l.group_id # subject.id},
     policies |-> {r \in db.policies :
                      ~(r.subject_type = subject.type /\ r.subject_id = subject.id)},
     groups |-> db.groups \ {subject.id}]

\* lines 296-306 as far as the tables of this model go: the group's mirror
\* Policy rows of every system are deleted (302) and so is the group (306);
\* GroupAuthorizeLock is not among the tables written
group_delete_tables(db, subject) ==
    [locks |-> db.locks,
     policies |-> {r \in db.policies :
                      ~(r.subject_type = subject.type /\ r.subject_id = subject.id)},
     groups |-> db.groups \ {subject.id}]

\* lines 292-293: a group with a lock row is not deleted
GroupDeleteCheck(g) ==
    /\ del.pc = "idle"
    /\ g \in groups
    /\ del' = IF \E l \in locks : l.group_id = g
              THEN [pc |-> "failed", group_id |-> g,
                    err |-> Err("pre_check", "VALIDATE_ERROR", "group authorizing")]
              ELSE [pc |-> "tx", group_id |-> g, err |-> NoErr]
    /\ UNCHANGED <<id_name_cache, fetch, locks, tasks, delayed, preUpdateLocks, policies, backend, seq, pc, group,
                   templates, idx, built, uuid, task, err, alt, app, groups, chk>>

\* lines 295-306: the transaction.  group_svc.delete removes the subject from
\* the backend, which may or may not drop the subject's policies with it.
GroupDeleteTx ==
    /\ del.pc = "tx"
    /\ \E committed \in BOOLEAN, dropped \in BOOLEAN :
          LET subject == Subject(GROUP, del.group_id)
              out == group_delete_tables([locks |-> locks, policies |-> policies,
                                          groups |-> groups], subject) IN
          IF committed
          THEN /\ locks' = out.locks
               /\ policies' = out.policies
               /\ groups' = out.groups
               /\ backend' = IF dropped
                             THEN {b \in backend : ~(b.subject_type = subject.type
                                                     /\ b.subject_id = subject.id)}
                             ELSE backend
               /\ del' = [del EXCEPT !.pc = "done"]
          ELSE /\ UNCHANGED <<locks, policies, groups, backend>>
               /\ del' = [del EXCEPT !.pc = "failed", !.err = Err("commit", "DB_ERROR", "delete")]
    /\ UNCHANGED <<id_name_cache, fetch, tasks, delayed, preUpdateLocks, seq, pc, group,
                   templates, idx, built, uuid, task, err, alt, app, chk>>

\* the call has returned or raised
GroupDeleteReturn ==
    /\ del.pc \in {"done", "failed"}
    /\ del' = DelIdle
    /\ UNCHANGED <<id_name_cache, fetch, locks, tasks, delayed, preUpdateLocks, policies, backend, seq, pc, group,
                   templates, idx, built, uuid, task, err, alt, app, groups, chk>>

\* ------------------------------- GroupCheckBiz.check_grant_policies_without_update
\* PolicyQueryService.list_by_subject: the subject's policies of one system
list_by_subject(system_id, subject) ==
    {[action_id |-> r.action_id, policy_id |-> r.policy_id, resources |-> r.resources] :
        r \in new_policy_list_by_subject(system_id, subject)}

\* lines 568-575.  Line 569 assigns the query result to the name of the
\* parameter, so from there on "policies" is the list of existing policies:
\* policy_list is built from it and the loop runs over it.
check_grant_policies_without_update(group_id, system_id, submitted) ==
    LET subject == Subject(GROUP, group_id)
        existing == list_by_subject(system_id, subject)
        policy_list == existing IN
    IF \E p \in existing : BeanListGet(policy_list, p.action_id) # {}
    THEN Err("validation", "VALIDATE_ERROR", "action exists, add only")
    ELSE NoErr

CheckGrantPoliciesWithoutUpdate ==
    /\ chk.pc = "idle"
    /\ \E submitted \in BeanLists(NonEmptyInstanceSets, {300}) \ {{}} :
          chk' = [pc |-> "checked", op |-> "check_grant_policies_without_update",
                  input |-> submitted,
                  err |-> check_grant_policies_without_update(ApplyGroup, "s1", submitted)]
    /\ UNCHANGED <<id_name_cache, fetch, locks, tasks, delayed, preUpdateLocks, policies, backend, seq, pc, group,
                   templates, idx, built, uuid, task, err, alt, app, groups, del>>

\* the checker has returned or raised
ChkReturn ==
    /\ chk.pc = "checked"
    /\ chk' = ChkIdle
    /\ UNCHANGED <<id_name_cache, fetch, locks, tasks, delayed, preUpdateLocks, policies, backend, seq, pc, group,
                   templates, idx, built, uuid, task, err, alt, app, groups, del>>

\* ------------------------------------ GroupBiz.check_update_policies_resource_name
\* the name check run on everything submitted
check_update_policies_resource_name_fullSet(system_id, template_id, ps, subject, authorized, renamed) ==
    check_resource_name(ps, renamed)

\* lines 198-208: the old policies are the subject's policies of the system
\* for a custom update and the data of the template authorization for a
\* template update; the names are checked on what the submitted policies add
check_update_policies_resource_name(system_id, template_id, ps, subject, authorized, renamed) ==
    LET old_policies == IF template_id = 0 THEN list_by_subject(system_id, subject)
                        ELSE authorized
        added_policy_list == sub(ps, old_policies) IN
    check_resource_name(added_policy_list, renamed)

\* the policies a template authorization or a role scope may hold
OldScopeLists ==
    {bl \in SUBSET {[action_id |-> a, policy_id |-> 0, resources |-> r] :
                        a \in Actions, r \in {{X}, Instances}} :
        \A q1 \in bl, q2 \in bl : q1.action_id = q2.action_id => q1 = q2}

\* one call of check_update_policies_resource_name for the group
CheckUpdatePoliciesResourceName ==
    /\ chk.pc = "idle"
    /\ \E ps \in BeanLists(NonEmptyInstanceSets, {300}) \ {{}},
          template_id \in {0, 3}, authorized \in OldScopeLists, renamed \in SUBSET Instances :
          /\ template_id = 0 => authorized = {}
          /\ chk' = [pc |-> "checked", op |-> "check_update_policies_resource_name",
                     input |-> [requested |-> ps, template_id |-> template_id,
                                authorized |-> authorized, renamed |-> renamed],
                     err |-> check_update_policies_resource_name(
                                 "s1", template_id, ps, Subject(GROUP, ApplyGroup),
                                 authorized, renamed)]
    /\ UNCHANGED <<id_name_cache, fetch, locks, tasks, delayed, preUpdateLocks, policies, backend, seq, pc, group,
                   templates, idx, built, uuid, task, err, alt, app, groups, del>>

\* ------------------------------------------------------- RoleTrans.from_role_data
\* lines 51-61 for one system of the role's authorization scopes
from_role_data_system(system_id, policy_list, old_system_policy_list, renamed) ==
    IF old_system_policy_list # <<>> /\ system_id \in DOMAIN old_system_policy_list
    THEN check_resource_name(sub(policy_list, old_system_policy_list[system_id]), renamed)
    ELSE check_resource_name(policy_list, renamed)

\* lines 51-65: the first system whose check fails raises
from_role_data(data, old_system_policy_list, renamed) ==
    LET bad == {system_id \in DOMAIN data :
                   from_role_data_system(system_id, data[system_id], old_system_policy_list,
                                         renamed) # NoErr} IN
    IF bad = {} THEN NoErr
    ELSE from_role_data_system(CHOOSE system_id \in bad : TRUE,
                               data[CHOOSE system_id \in bad : TRUE],
                               old_system_policy_list, renamed)

\* the scopes of a second system in the role data
OtherSystemScope == {Bean("view", {Y}, 300)}

\* one call of from_role_data: role data for s1, or for s1 and s2, with no
\* old scopes (creation) or the old scopes of one of the systems (update)
FromRoleData ==
    /\ chk.pc = "idle"
    /\ \E ps \in BeanLists(NonEmptyInstanceSets, {300}) \ {{}}, both \in BOOLEAN,
          old \in OldScopeLists, oldOf \in {"", "s1", "s2"}, renamed \in SUBSET Instances :
          LET data == IF both THEN ("s1" :> ps) @@ ("s2" :> OtherSystemScope) ELSE ("s1" :> ps)
              old_system_policy_list == IF oldOf = "" THEN <<>> ELSE (oldOf :> old) IN
          /\ oldOf = "" => old = {}
          /\ oldOf = "s2" => old = {[action_id |-> "view", policy_id |-> 0, resources |-> {X}]}
          /\ chk' = [pc |-> "checked", op |-> "from_role_data",
                     input |-> [data |-> data, old |-> old_system_policy_list,
                                renamed |-> renamed],
                     err |-> from_role_data(data, old_system_policy_list, renamed)]
    /\ UNCHANGED <<id_name_cache, fetch, locks, tasks, delayed, preUpdateLocks, policies, backend, seq, pc, group,
                   templates, idx, built, uuid, task, err, alt, app, groups, del>>

\* ------------------------------------------------------------ ActionCheckBiz.check
RelatedResourceType(system_id, id) == [system_id |-> system_id, id |-> id]

ResourceTypes ==
    {RelatedResourceType("s1", "host"), RelatedResourceType("s1", "module"),
     RelatedResourceType("s2", "host")}

\* ActionService.list(system_id): the actions a system declares, each with
\* its ordered related resource types
SvcActions(system_id) ==
    IF system_id = "s1"
    THEN ("view" :> <<RelatedResourceType("s1", "host")>>)
         @@ ("edit" :> <<RelatedResourceType("s1", "host"), RelatedResourceType("s1", "module")>>)
         @@ ("create" :> <<>>)
    ELSE <<>>

\* ActionForCheck
ActionForCheck(id, rts) == [id |-> id, related_resource_types |-> rts]

SubmittedActionIds == {"view", "edit", "create", "drop"}

SubmittedActions ==
    {ActionForCheck(id, rts) :
        id \in SubmittedActionIds,
        rts \in {<<>>} \cup SeqsUpTo(ResourceTypes, MaxResourceTypes)}

\* Action.index_of_related_resource_type: the position (from 0) of the
\* declared resource type with that system and id, -1 when there is none
index_of_related_resource_type(declared, system_id, id) ==
    LET hits == {i \in DOMAIN declared :
                    declared[i].system_id = system_id /\ declared[i].id = id} IN
    IF hits = {} THEN -1 ELSE (CHOOSE i \in hits : \A j \in hits : i <= j) - 1

\* a check that only asks for every submitted type to be a declared one
check_action_related_resource_types_anyOrder(declared, action) ==
    LET rts == action.related_resource_types IN
    IF Len(rts) # Len(declared)
    THEN Err("action_check", "ACTION_VALIDATE_ERROR", "related resource types wrong")
    ELSE IF \E i \in DOMAIN rts :
               index_of_related_resource_type(declared, rts[i].system_id, rts[i].id) = -1
    THEN Err("action_check", "ACTION_VALIDATE_ERROR", "related resource type wrong")
    ELSE NoErr

\* lines 204-214
check_action_related_resource_types(declared, action) ==
    LET rts == action.related_resource_types IN
    IF Len(rts) # Len(declared)
    THEN Err("action_check", "ACTION_VALIDATE_ERROR", "related resource types wrong")
    ELSE IF \E i \in DOMAIN rts :
               i - 1 # index_of_related_resource_type(declared, rts[i].system_id, rts[i].id)
    THEN Err("action_check", "ACTION_VALIDATE_ERROR", "related resource type wrong")
    ELSE NoErr

\* lines 198-202
check_action(action_list, action) ==
    IF action.id \notin DOMAIN action_list
    THEN Err("action_check", "VALIDATE_ERROR", "action not exists")
    ELSE check_action_related_resource_types(action_list[action.id], action)

\* lines 184-191: the actions are checked in order, the first error is raised
ActionCheck_check(system_id, actions) ==
    LET action_list == SvcActions(system_id)
        bad == {i \in DOMAIN actions : check_action(action_list, actions[i]) # NoErr} IN
    IF bad = {} THEN NoErr
    ELSE check_action(action_list, actions[CHOOSE i \in bad : \A j \in bad : i <= j])

\* one call of ActionCheckBiz.check with one or two actions
ActionCheck ==
    /\ chk.pc = "idle"
    /\ \E actions \in {<<a>> : a \in SubmittedActions}
                      \cup {<<a, b>> : a \in SubmittedActions, b \in SubmittedActions} :
          chk' = [pc |-> "checked", op |-> "check", input |-> actions,
                  err |-> ActionCheck_check("s1", actions)]
    /\ UNCHANGED <<id_name_cache, fetch, locks, tasks, delayed, preUpdateLocks, policies, backend, seq, pc, group,
                   templates, idx, built, uuid, task, err, alt, app, groups, del>>

\* ------------------------------------- ResourceIDNameCache and ResourceProvider
\* the keys of a Python dict built from the list ids: each id once, in the
\* order of its first occurrence
RECURSIVE DictKeys(_)
DictKeys(ids) ==
    IF ids = <<>> THEN <<>>
    ELSE LET rest == DictKeys(SubSeq(ids, 1, Len(ids) - 1))
             last == ids[Len(ids)] IN
         IF \E i \in DOMAIN rest : rest[i] = last THEN rest ELSE Append(rest, last)

\* the ids of seq that satisfy keep(id), in order
RECURSIVE Filter(_, _)
Filter(ids, keep) ==
    IF ids = <<>> THEN <<>>
    ELSE LET rest == Filter(SubSeq(ids, 1, Len(ids) - 1), keep)
             last == ids[Len(ids)] IN
         IF last \in keep THEN Append(rest, last) ELSE rest

\* a get whose except branch answers with an empty result list
ResourceIDNameCache_get_emptyOnError(cache, ids, redisError) ==
    IF redisError THEN <<>>
    ELSE [id \in {ids[i] : i \in DOMAIN ids} |-> cache[id]]

\* ResourceIDNameCache.get (113-130): the cached name of every id, None for
\* an id without a key; None for every id when the pipeline raises RedisError
ResourceIDNameCache_get(cache, ids, redisError) ==
    [id \in {ids[i] : i \in DOMAIN ids} |-> IF redisError THEN NONE ELSE cache[id]]

\* ResourceIDNameCache.set (100-111): every string name is stored; when the
\* pipeline raises, the error is logged and the keys are written or not
ResourceIDNameCache_set(cache, id_name_map, redisError, written) ==
    IF redisError /\ ~written THEN cache
    ELSE [id \in DOMAIN cache |->
            IF id \in DOMAIN id_name_map THEN id_name_map[id] ELSE cache[id]]

ResourceInstanceBaseInfo(id, display_name) == [id |-> id, display_name |-> display_name]

\* fetch_instance_info(ids, ["display_name"]) (205-241): what the provider
\* returns for the ids asked; provider[id] is the name it gives, None for an
\* id it does not return
fetch_instance_info(ids, provider) ==
    LET returned == Filter(ids, {id \in DOMAIN provider : provider[id] # NONE}) IN
    [i \in DOMAIN returned |-> ResourceInstanceBaseInfo(returned[i], provider[returned[i]])]

\* lines 247-249: the entries taken from the cache
cached_results(cache_id_name_map, ids) ==
    LET keys == Filter(DictKeys(ids), DOMAIN cache_id_name_map)
        named == Filter(keys, {id \in DOMAIN cache_id_name_map :
                                  cache_id_name_map[id] # NONE /\ cache_id_name_map[id] # ""}) IN
    [i \in DOMAIN named |-> ResourceInstanceBaseInfo(named[i], cache_id_name_map[named[i]])]

\* line 251
not_cached_ids(cache_id_name_map, ids) ==
    Filter(Filter(DictKeys(ids), DOMAIN cache_id_name_map),
           {id \in DOMAIN cache_id_name_map : cache_id_name_map[id] = NONE})

\* lines 246-251: the cache is asked
FetchInstanceName ==
    /\ fetch.pc = "idle"
    /\ \E ids \in {<<>>} \cup SeqsUpTo(Instances, MaxInstances), redisError \in BOOLEAN :
          LET cache_id_name_map == ResourceIDNameCache_get(id_name_cache, ids, redisError) IN
          fetch' = [FetchIdle EXCEPT
                      !.pc = "provider", !.ids = ids, !.get_error = redisError,
                      !.cache_id_name_map = cache_id_name_map,
                      !.results = cached_results(cache_id_name_map, ids),
                      !.not_cached_ids = not_cached_ids(cache_id_name_map, ids)]
    /\ UNCHANGED <<id_name_cache>>
    /\ UNCHANGED <<locks, tasks, delayed, preUpdateLocks, policies, backend, seq, pc, group,
                   templates, idx, built, uuid, task, err, alt, app, groups, del, chk>>

\* lines 252-260: the provider is asked for the ids not cached (it is not
\* called for an empty list) and may raise; what it returns is cached
\* (231-239) and appended to the results
FetchNotCached ==
    /\ fetch.pc = "provider"
    /\ \E provider \in [Instances -> DisplayNames \cup {NONE}], raised \in BOOLEAN,
          redisError \in BOOLEAN, written \in BOOLEAN :
          LET not_cached_results == fetch_instance_info(fetch.not_cached_ids, provider)
              id_name_map == [id \in {not_cached_results[i].id : i \in DOMAIN not_cached_results}
                                |-> provider[id]] IN
          /\ (raised \/ redisError) => fetch.not_cached_ids # <<>>
          /\ redisError => (~raised /\ not_cached_results # <<>>)
          /\ written => redisError
          /\ IF raised
             THEN /\ fetch' = [fetch EXCEPT !.pc = "failed", !.provider = provider,
                                            !.provider_error = TRUE]
                  /\ id_name_cache' = id_name_cache
             ELSE /\ fetch' = [fetch EXCEPT !.pc = "done", !.provider = provider,
                                            !.set_error = redisError,
                                            !.results = @ \o not_cached_results]
                  /\ id_name_cache' =
                        IF not_cached_results = <<>> THEN id_name_cache
                        ELSE ResourceIDNameCache_set(id_name_cache, id_name_map, redisError, written)
    /\ UNCHANGED <<locks, tasks, delayed, preUpdateLocks, policies, backend, seq, pc, group,
                   templates, idx, built, uuid, task, err, alt, app, groups, del, chk>>

\* the call has returned or raised
FetchReturn ==
    /\ fetch.pc \in {"done", "failed"}
    /\ fetch' = FetchIdle
    /\ UNCHANGED <<id_name_cache>>
    /\ UNCHANGED <<locks, tasks, delayed, preUpdateLocks, policies, backend, seq, pc, group,
                   templates, idx, built, uuid, task, err, alt, app, groups, del, chk>>

\* line 108: a key lives five minutes
CacheExpire(id) ==
    /\ id_name_cache[id] # NONE
    /\ id_name_cache' = [id_name_cache EXCEPT ![id] = NONE]
    /\ UNCHANGED <<fetch>>
    /\ UNCHANGED <<locks, tasks, delayed, preUpdateLocks, policies, backend, seq, pc, group,
                   templates, idx, built, uuid, task, err, alt, app, groups, del, chk>>

\* ------------------------------------------------------- asynchronous task runner
\* The group-authorization task: applies the custom policies of the locks
\* that carry the task's key through the policy operation service, then
\* removes those locks.  (Template locks record a template authorization,
\* which this model does not hold.)
RunTask(tid) ==
    /\ tid \in delayed
    /\ LET t == CHOOSE x \in tasks : x.id = tid
           subject == t.args[1]
           mine == {l \in locks : l.key = t.args[2]}
           custom == {l \in mine : l.template_id = 0}
           \* alter(system_id, subject, create_policies = lock.data) per lock
           step(st, l) ==
               LET m1 == create_db_policies(st.policies, l.system_id, subject, l.data, st.seq.policy)
                   b1 == backend_alter_policies(st.backend, l.system_id, subject, l.data, {}, {},
                                                st.seq.backend) IN
               [policies |-> sync_db_policy_id(m1, b1, l.system_id, subject),
                backend |-> b1,
                seq |-> [st.seq EXCEPT !.policy = @ + IdStride, !.backend = @ + IdStride]]
           ApplyAll[ls \in SUBSET custom] ==
               IF ls = {} THEN [policies |-> policies, backend |-> backend, seq |-> seq]
               ELSE LET l == CHOOSE x \in ls : \A y \in ls : x.id <= y.id IN
                    step(ApplyAll[ls \ {l}], l)
           out == ApplyAll[custom] IN
       /\ policies' = out.policies
       /\ backend' = out.backend
       /\ seq' = out.seq
       /\ locks' = locks \ mine
    /\ delayed' = delayed \ {tid}
    /\ UNCHANGED <<id_name_cache, fetch, groups, del, chk, tasks, preUpdateLocks, pc, group, templates, idx, built, uuid, task, err, alt, app>>

\* ----------------------------------------------------- template editing process
\* A template update takes a PermTemplatePreUpdateLock and later drops it.
TemplateUpdateBegin(t) ==
    /\ t \notin preUpdateLocks
    /\ preUpdateLocks' = preUpdateLocks \cup {t}
    /\ UNCHANGED <<id_name_cache, fetch, groups, del, chk, locks, tasks, delayed, policies, backend, seq, pc, group, templates,
                   idx, built, uuid, task, err, alt, app>>

TemplateUpdateEnd(t) ==
    /\ t \in preUpdateLocks
    /\ preUpdateLocks' = preUpdateLocks \ {t}
    /\ UNCHANGED <<id_name_cache, fetch, groups, del, chk, locks, tasks, delayed, policies, backend, seq, pc, group, templates,
                   idx, built, uuid, task, err, alt, app>>

\* ------------------------------------------------------------- request inputs
Groups == {7}

SubmittedExpiredAts == {200}

\* grant entries the request handlers are given
TemplateEntries ==
    {GroupTemplateGrantBean("s1", 3, {Bean("view", {X}, e), Bean("edit", {X}, e)}) : e \in SubmittedExpiredAts}
    \cup {GroupTemplateGrantBean("s1", 9, {Bean("view", {X}, e)}) : e \in SubmittedExpiredAts}

CustomEntries ==
    {GroupTemplateGrantBean("s1", 0, {Bean("view", r, e)}) :
        r \in {{X}, {X, Y}}, e \in SubmittedExpiredAts}
    \cup {GroupTemplateGrantBean("s1", 0, {Bean("edit", {X}, e)}) : e \in SubmittedExpiredAts}
    \cup {GroupTemplateGrantBean("s2", 0, {Bean("view", {X}, e)}) : e \in SubmittedExpiredAts}

Entries == TemplateEntries \cup CustomEntries

\* --------------------------------------------------------------- specifications

Init ==
    /\ locks = {}
    /\ tasks = {}
    /\ delayed = {}
    /\ preUpdateLocks = {}
    /\ policies = {}
    /\ backend = {}
    /\ seq = [lock |-> 0, task |-> 0, uuid |-> 0, policy |-> 0, backend |-> 0, alter |-> 0,
              group |-> LastGroupId]
    /\ pc = [p \in Procs |-> "idle"]
    /\ group = [p \in Procs |-> 0]
    /\ templates = [p \in Procs |-> <<>>]
    /\ idx = [p \in Procs |-> 0]
    /\ built = [p \in Procs |-> <<>>]
    /\ uuid = [p \in Procs |-> 0]
    /\ task = [p \in Procs |-> 0]
    /\ err = [p \in Procs |-> NoErr]
    /\ alt = AltIdle
    /\ app = AppIdle
    /\ groups = Groups
    /\ del = DelIdle
    /\ chk = ChkIdle
    /\ id_name_cache = EmptyCache
    /\ fetch = FetchIdle

\* request handlers run concurrently
Next ==
    \/ \E p \in Procs : CheckBeforeGrant(p, Groups, Entries)
    \/ \E p \in Procs : GenGrantLock(p)
    \/ \E p \in Procs : CommitLocks(p)
    \/ \E p \in Procs : Dispatch(p)
    \/ \E tid \in delayed : RunTask(tid)
    \/ \E t \in TemplateIds : TemplateUpdateBegin(t)
    \/ \E t \in TemplateIds : TemplateUpdateEnd(t)

Spec == Init /\ [][Next]_vars

\* one request at a time: a handler starts only when no other is running
Ended(p) == pc[p] \in {"done", "failed"}

SerialStart(p) ==
    /\ \A q \in Procs \ {p} : IF p = "r1" THEN pc[q] = "idle" ELSE Ended(q)
    /\ CheckBeforeGrant(p, Groups, Entries)

SerialNext ==
    \/ \E p \in Procs : SerialStart(p)
    \/ \E p \in Procs : GenGrantLock(p)
    \/ \E p \in Procs : CommitLocks(p)
    \/ \E p \in Procs : Dispatch(p)
    \/ \E tid \in delayed : RunTask(tid)
    \/ \E t \in TemplateIds : TemplateUpdateBegin(t)
    \/ \E t \in TemplateIds : TemplateUpdateEnd(t)

SerialSpec == Init /\ [][SerialNext]_vars

\* calls of the policy operation service
AlterNext ==
    \/ AlterBegin
    \/ AlterBackend
    \/ AlterCommit
    \/ AlterSync
    \/ AlterReturn

AlterSpec == Init /\ [][AlterNext]_vars

\* the policies the applicant and the group hold when a request arrives:
\* at most one per action, expired (50) or not (200) at the request time
HeldLists == BeanLists(NonEmptyInstanceSets, {50, 200})

BackendRow(q, system_id, subject) ==
    [id |-> ActionNo[q.action_id], system_id |-> system_id, subject_type |-> subject.type,
     subject_id |-> subject.id, action_id |-> q.action_id, resources |-> q.resources,
     expired_at |-> q.expired_at]

ApplyInit ==
    /\ locks = {}
    /\ tasks = {}
    /\ delayed = {}
    /\ preUpdateLocks = {}
    /\ \E held \in HeldLists :
          /\ backend = {BackendRow(q, "s1", sj) :
                          q \in held, sj \in {Subject(USER, Applicant), Subject(GROUP, ApplyGroup)}}
          /\ policies = {to_db_model([q EXCEPT !.policy_id = ActionNo[q.action_id]], "s1", sj,
                                      ActionNo[q.action_id] + (IF sj.type = USER THEN 0 ELSE IdStride)) :
                          q \in held, sj \in {Subject(USER, Applicant), Subject(GROUP, ApplyGroup)}}
    /\ seq = [lock |-> 0, task |-> 0, uuid |-> 0, policy |-> 2 * IdStride, backend |-> IdStride,
              alter |-> 0, group |-> LastGroupId]
    /\ pc = [p \in Procs |-> "idle"]
    /\ group = [p \in Procs |-> 0]
    /\ templates = [p \in Procs |-> <<>>]
    /\ idx = [p \in Procs |-> 0]
    /\ built = [p \in Procs |-> <<>>]
    /\ uuid = [p \in Procs |-> 0]
    /\ task = [p \in Procs |-> 0]
    /\ err = [p \in Procs |-> NoErr]
    /\ alt = AltIdle
    /\ app = AppIdle
    /\ groups = Groups
    /\ del = DelIdle
    /\ chk = ChkIdle
    /\ id_name_cache = EmptyCache
    /\ fetch = FetchIdle

ApplyNext ==
    \/ GenNeedApply
    \/ GrantCheck
    \/ AppReturn

ApplySpec == ApplyInit /\ [][ApplyNext]_vars

\* calls of GroupCheckBiz.check_grant_policies_without_update on a group that
\* holds policies
GroupCheckNext ==
    \/ CheckGrantPoliciesWithoutUpdate
    \/ ChkReturn

GroupCheckSpec == ApplyInit /\ [][GroupCheckNext]_vars

\* the three callers of check_resource_name that have old policies to
\* subtract, on subjects that hold policies naming X
NameCheckInit ==
    /\ ApplyInit
    /\ \A b \in backend : b.resources = {X}

\* one call at a time
NameCheckNext ==
    \/ chk.pc = "idle" /\ GenNeedApply
    \/ AppReturn
    \/ app.pc = "idle" /\ CheckUpdatePoliciesResourceName
    \/ app.pc = "idle" /\ FromRoleData
    \/ ChkReturn

NameCheckSpec == NameCheckInit /\ [][NameCheckNext]_vars

\* calls of ResourceProvider.fetch_instance_name on one resource type
ResourceNext ==
    \/ FetchInstanceName
    \/ FetchNotCached
    \/ FetchReturn
    \/ \E id \in Instances : CacheExpire(id)

ResourceSpec == Init /\ [][ResourceNext]_vars

\* calls of ActionCheckBiz.check
ActionCheckNext ==
    \/ ActionCheck
    \/ ChkReturn

ActionCheckSpec == Init /\ [][ActionCheckNext]_vars

\* calls of delete_by_ids on subjects that hold policies
DeleteInit ==
    /\ locks = {}
    /\ tasks = {}
    /\ delayed = {}
    /\ preUpdateLocks = {}
    /\ \E held \in SUBSET HeldRows :
          /\ backend = held
          /\ policies = {MirrorRow(b) : b \in held}
    /\ seq = [lock |-> 0, task |-> 0, uuid |-> 0, policy |-> Cardinality(HeldRows),
              backend |-> Cardinality(HeldRows), alter |-> 0, group |-> LastGroupId]
    /\ pc = [p \in Procs |-> "idle"]
    /\ group = [p \in Procs |-> 0]
    /\ templates = [p \in Procs |-> <<>>]
    /\ idx = [p \in Procs |-> 0]
    /\ built = [p \in Procs |-> <<>>]
    /\ uuid = [p \in Procs |-> 0]
    /\ task = [p \in Procs |-> 0]
    /\ err = [p \in Procs |-> NoErr]
    /\ alt = AltIdle
    /\ app = AppIdle
    /\ groups = Groups
    /\ del = DelIdle
    /\ chk = ChkIdle
    /\ id_name_cache = EmptyCache
    /\ fetch = FetchIdle

DeleteNext ==
    \/ DeleteByIdsBegin
    \/ DeleteByIdsBackend
    \/ DeleteByIdsCommit
    \/ AlterReturn

DeleteSpec == DeleteInit /\ [][DeleteNext]_vars

\* grant requests for two groups, arriving while authorizations of earlier
\* requests are in flight and templates are being edited

PreCheckEntries ==
    {GroupTemplateGrantBean("s1", 3, {Bean("view", {X}, 200), Bean("edit", {X}, 200)}),
     GroupTemplateGrantBean("s1", 9, {Bean("view", {X}, 200)}),
     GroupTemplateGrantBean("s1", 0, {Bean("view", {X}, 200)}),
     GroupTemplateGrantBean("s2", 0, {Bean("view", {X}, 200)})}

\* the lock row an earlier grant of one entry left: row id and key n
EarlierLock(n, g, t) == new_lock(Subject(GROUP, g), t, n) @@ [id |-> n]

EarlierLocks ==
    {EarlierLock(1, 7, GroupTemplateGrantBean("s1", 3, {Bean("view", {X}, 200), Bean("edit", {X}, 200)})),
     EarlierLock(2, 7, GroupTemplateGrantBean("s1", 0, {Bean("view", {X}, 200)})),
     EarlierLock(3, 8, GroupTemplateGrantBean("s1", 9, {Bean("view", {X}, 200)})),
     EarlierLock(4, 8, GroupTemplateGrantBean("s2", 0, {Bean("view", {X}, 200)}))}

PreCheckInit ==
    /\ locks \in SUBSET EarlierLocks
    /\ tasks = {[id |-> l.id, type |-> "group_authorization",
                 args |-> <<Subject(GROUP, l.group_id), l.key>>] : l \in locks}
    /\ delayed = {l.id : l \in locks}
    /\ preUpdateLocks \in SUBSET TemplateIds
    /\ policies = {}
    /\ backend = {}
    /\ seq = [lock |-> Cardinality(EarlierLocks), task |-> Cardinality(EarlierLocks),
              uuid |-> Cardinality(EarlierLocks), policy |-> 0, backend |-> 0, alter |-> 0, group |-> LastGroupId]
    /\ pc = [p \in Procs |-> "idle"]
    /\ group = [p \in Procs |-> 0]
    /\ templates = [p \in Procs |-> <<>>]
    /\ idx = [p \in Procs |-> 0]
    /\ built = [p \in Procs |-> <<>>]
    /\ uuid = [p \in Procs |-> 0]
    /\ task = [p \in Procs |-> 0]
    /\ err = [p \in Procs |-> NoErr]
    /\ alt = AltIdle
    /\ app = AppIdle
    /\ groups = LockedGroups
    /\ del = DelIdle
    /\ chk = ChkIdle
    /\ id_name_cache = EmptyCache
    /\ fetch = FetchIdle

\* one request
PreCheckNext ==
    \/ CheckBeforeGrant("r1", LockedGroups, PreCheckEntries)
    \/ \E p \in Procs : GenGrantLock(p)
    \/ \E p \in Procs : CommitLocks(p)
    \/ \E p \in Procs : Dispatch(p)

PreCheckSpec == PreCheckInit /\ [][PreCheckNext]_vars

\* the request-path operations of GroupBiz and the task runner; one grant
\* request and the policy updates are for group 7 while it exists, groups
\* created later are only created and deleted
GroupEntries ==
    {GroupTemplateGrantBean("s1", 9, {Bean("view", {X}, 200)}),
     GroupTemplateGrantBean("s2", 0, {Bean("view", {X}, 200)})}

GroupGrantStart(p) ==
    /\ p = "r1"
    /\ CheckBeforeGrant(p, groups \cap Groups, GroupEntries)

GroupNext ==
    \/ \E p \in Procs : GroupGrantStart(p)
    \/ \E p \in Procs : GenGrantLock(p)
    \/ \E p \in Procs : CommitLocks(p)
    \/ \E p \in Procs : Dispatch(p)
    \/ \E tid \in delayed : RunTask(tid)
    \/ GroupCreateAndAddMembers
    \/ GroupBatchCreate
    \/ \E g \in groups \cap Groups : GroupUpdatePolicies(g)
    \/ \E g \in groups : GroupDeleteCheck(g)
    \/ GroupDeleteTx
    \/ GroupDeleteReturn

\* group 7 exists and an earlier custom grant to it is in flight
GroupInit ==
    /\ locks = {EarlierLock(2, 7, GroupTemplateGrantBean("s1", 0, {Bean("view", {X}, 200)}))}
    /\ tasks = {[id |-> l.id, type |-> "group_authorization",
                 args |-> <<Subject(GROUP, l.group_id), l.key>>] : l \in locks}
    /\ delayed = {l.id : l \in locks}
    /\ preUpdateLocks = {}
    /\ policies = {}
    /\ backend = {}
    /\ seq = [lock |-> Cardinality(EarlierLocks), task |-> Cardinality(EarlierLocks),
              uuid |-> Cardinality(EarlierLocks), policy |-> 0, backend |-> 0, alter |-> 0,
              group |-> LastGroupId]
    /\ pc = [p \in Procs |-> "idle"]
    /\ group = [p \in Procs |-> 0]
    /\ templates = [p \in Procs |-> <<>>]
    /\ idx = [p \in Procs |-> 0]
    /\ built = [p \in Procs |-> <<>>]
    /\ uuid = [p \in Procs |-> 0]
    /\ task = [p \in Procs |-> 0]
    /\ err = [p \in Procs |-> NoErr]
    /\ alt = AltIdle
    /\ app = AppIdle
    /\ groups = Groups
    /\ del = DelIdle
    /\ chk = ChkIdle
    /\ id_name_cache = EmptyCache
    /\ fetch = FetchIdle

GroupSpec == GroupInit /\ [][GroupNext]_vars

\* ---------------------------------------------------------------- properties
\* rows a grant call has written: they carry the call's uuid
LocksOf(p) == {l \in locks : l.key = uuid[p]}

TasksOf(p) == {t \in tasks : t.args[2] = uuid[p]}

\* the entries of a batch that name template tid
NamesTemplate(ts, tid) == \E i \in DOMAIN ts : ts[i].template_id = tid

\* C1: a grant request of group G naming template T, made while a
\* GroupAuthorizeLock row for (G, T) exists, never passes _check_before_grant:
\* the step that starts it ends it as failed in the pre-check, and that step
\* leaves the GroupAuthorizeLock and TaskDetail tables as they were.
C1_LockedTemplateFailsPreCheck ==
    [][\A p \in Procs :
         /\ (pc[p] = "idle" /\ pc'[p] = "gen")
              => ~\E l \in locks : /\ l.group_id = group'[p]
                                  /\ l.template_id # 0
                                  /\ NamesTemplate(templates'[p], l.template_id)
         /\ (pc[p] = "idle" /\ pc'[p] = "failed")
              => /\ err'[p].stage = "pre_check"
                 /\ locks' = locks
                 /\ tasks' = tasks
                 /\ delayed' = delayed]_vars

\* C1 witness: a request failed the pre-check on "already authorizing" while
\* the only locks of its group are template locks
C1_Witness ==
    \E p \in Procs :
        /\ pc[p] = "failed"
        /\ err[p].msg = "already authorizing"
        /\ \E l \in locks : l.group_id = group[p]
        /\ \A l \in locks : l.template_id # 0

\* two lock rows guard the same (group, permission source) pair
SameSource(l1, l2) ==
    /\ l1.group_id = l2.group_id
    /\ l1.template_id = l2.template_id
    /\ (l1.template_id = 0 => l1.system_id = l2.system_id)

\* C2: under every interleaving of concurrent grant requests, no two
\* requests hold committed locks for the same (group, permission source)
\* pair at the same time.
C2_AtMostOneInFlight ==
    \A l1 \in locks, l2 \in locks : (SameSource(l1, l2) /\ l1.key # l2.key) => FALSE

\* C3: after serially executed grant requests the GroupAuthorizeLock table
\* never holds two rows of one group for the same non-zero template_id, nor
\* two rows with template_id 0 and the same system_id.
C3_NoDuplicateLockRows ==
    \A l1 \in locks, l2 \in locks : SameSource(l1, l2) => l1.id = l2.id

\* C4: a grant request that fails in the pre-check or in the validation of
\* an entry ends with an error, the failing step leaves the lock table, the
\* task table and the dispatched tasks as they were, and no lock row or
\* task record written by the request exists.
C4_FailedValidationWritesNothing ==
    [][\A p \in Procs :
         (pc[p] \in {"idle", "gen"} /\ pc'[p] = "failed")
            => /\ err'[p].stage \in {"pre_check", "validation"}
               /\ err'[p].code # ""
               /\ locks' = locks
               /\ tasks' = tasks
               /\ delayed' = delayed
               /\ {l \in locks' : l.key = uuid'[p]} = {}
               /\ {t \in tasks' : t.args[2] = uuid'[p]} = {}]_vars

\* C4 witness: the second entry of a batch failed its validation after the
\* first one had passed
C4_Witness ==
    \E p \in Procs :
        /\ pc[p] = "failed"
        /\ err[p].stage = "validation"
        /\ idx[p] >= 2

\* the transaction of a grant call has ended
TxEnded(p) == pc[p] \in {"dispatch", "done"} \/ (pc[p] = "failed" /\ err[p].stage \in {"commit", "dispatch"})

\* the task runner has consumed the call's task (and with it the locks)
TaskRan(p) == pc[p] = "done" /\ task[p] \notin delayed

AllPersisted(p) ==
    /\ Cardinality(TasksOf(p)) = 1
    /\ TaskRan(p) \/ Cardinality(LocksOf(p)) = idx[p] - 1

NonePersisted(p) == LocksOf(p) = {} /\ TasksOf(p) = {}

\* C5: once the transaction of a grant call has ended, either every lock row
\* of the batch and the task record are stored (until the task runner
\* consumes the locks), or none of them is; a failed lock insert or task
\* creation leaves none.
C5_LocksAndTaskAtomic ==
    \A p \in Procs :
        TxEnded(p) =>
            /\ AllPersisted(p) \/ NonePersisted(p)
            /\ (pc[p] = "failed" /\ err[p].stage = "commit") => NonePersisted(p)
            /\ pc[p] # "failed" \/ err[p].stage = "dispatch" => AllPersisted(p)

\* C5 witness: the task creation failed inside the transaction of a batch
\* of two entries and nothing of the batch is stored
C5_Witness ==
    \E p \in Procs :
        /\ pc[p] = "failed"
        /\ err[p].msg = "task_create_error"
        /\ idx[p] = 3
        /\ NonePersisted(p)

\* the actions group g holds a mirror policy for in a system
HeldActions(g, system_id) ==
    {r.action_id : r \in {x \in policies : x.system_id = system_id /\ x.subject_type = GROUP
                                          /\ x.subject_id = g}}

\* a step of handler p
Stepped(p) == pc'[p] # pc[p] \/ idx'[p] # idx[p]

\* C8: a custom (template_id 0) entry is add-only.  When the group already
\* holds a policy for a requested action of that system, with whatever
\* instances, the entry fails and no policy is written; the entry gets past
\* the check only when every requested action is absent.
C8_CustomGrantAddOnly ==
    [][\A p \in Procs :
         (pc[p] = "gen" /\ Stepped(p) /\ templates[p][idx[p]].template_id = 0)
            => LET t == templates[p][idx[p]]
                   req == {b.action_id : b \in t.policies}
                   held == HeldActions(group[p], t.system_id) IN
               /\ policies' = policies
               /\ backend' = backend
               /\ (req \cap held # {}) => (pc'[p] = "failed" /\ err'[p].msg = "action exists")
               /\ (pc'[p] # "failed") => req \cap held = {}]_vars

\* C8 witness: a custom entry was refused because the group holds the action
C8_Witness ==
    \E p \in Procs :
        /\ pc[p] = "failed"
        /\ err[p].msg = "action exists"
        /\ HeldActions(group[p], "s1") # {}

MirrorApplied ==
    \/ policies = alt.tx
    \/ policies = sync_db_policy_id(alt.tx, backend, alt.system_id, alt.subject)

MirrorUntouched == policies = alt.before.policies

BackendApplied == backend = alt.expect

BackendUntouched == backend = alt.before.backend

\* C6: when an alter call has ended, normally or with an error, either the
\* mirror and the backend both hold the call's changes or neither does.
C6_AlterOneUnit ==
    alt.pc \in {"done", "failed"} =>
        \/ MirrorApplied /\ BackendApplied
        \/ MirrorUntouched /\ BackendUntouched

\* C7: when iam.alter_policies fails (error or timeout) the call is reported
\* as failed, the mirror is what it was before the call and
\* _sync_db_policy_id has not run.
C7_BackendFailureRollsBack ==
    (alt.pc # "idle" /\ alt.outcome \notin {"", "ok"}) =>
        /\ alt.pc = "failed"
        /\ policies = alt.before.policies
        /\ ~alt.synced

\* C7 witness: the backend call timed out after the transaction had
\* inserted, patched and deleted mirror rows
C7_Witness ==
    /\ alt.pc = "failed"
    /\ alt.outcome \in {"timeout_applied", "timeout_not_applied"}
    /\ alt.create # {} /\ alt.update # {} /\ alt.delete_ids # {}
    /\ alt.tx # alt.before.policies
    /\ \E r \in alt.before.policies : r \notin alt.tx
    /\ policies = alt.before.policies

\* the applicant's policies as _gen_need_apply_policy_list reads them
OldOfApplicant == new_policy_list("s1", Subject(USER, Applicant))

\* the subject the request of app is made for
AppSubject == IF app.pc = "checked" THEN Subject(GROUP, ApplyGroup) ELSE Subject(USER, Applicant)

\* every requested grant is already held by that subject, unexpired
Covered ==
    \A q \in app.requested :
        \E o \in new_policy_list("s1", AppSubject) :
            o.action_id = q.action_id /\ ~is_expired(o, app.now) /\ q.resources \subseteq o.resources

\* C9 as claimed: a desired-state document whose grants the subject already
\* holds is accepted again, by the application path and by the group grant
\* path.
C9_ResubmitDoesNotFail ==
    (app.pc \in {"applied", "checked"} /\ Covered) => app.result.error = ""

\* C9 as amended: such a document yields no grant, and it is refused: the
\* application path raises the zero-delta INVALID_ARGS error and the add-only
\* check of the group grant path raises VALIDATE_ERROR for the action held.
C9_ResubmitRefusedWithoutDuplicate ==
    (app.pc \in {"applied", "checked"} /\ Covered) =>
        /\ app.result.policies = {}
        /\ app.pc = "applied" => app.result.error = "INVALID_ARGS"
        /\ app.pc = "checked" =>
              (app.result.error = "VALIDATE_ERROR" /\ app.result.msg = "action exists")

\* C9 witness: the application path was handed what the applicant holds
C9_Witness ==
    /\ app.pc = "applied"
    /\ Covered
    /\ Cardinality(app.requested) = 2
    /\ app.result.error = "INVALID_ARGS"

\* C10: for a requested policy whose action the applicant holds unexpired,
\* the application holds a policy of that action exactly when the request
\* names instances the held policy lacks; that policy names only those
\* instances and expires when the held policy does.
C10_IncrementalPolicy ==
    (app.pc = "applied" /\ app.result.error = "") =>
        \A q \in app.requested : \A o \in BeanListGet(OldOfApplicant, q.action_id) :
            ~is_expired(o, app.now) =>
                LET placed == BeanListGet(app.result.policies, q.action_id) IN
                /\ (placed # {}) <=> (q.resources \ o.resources # {})
                /\ \A d \in placed : /\ d.resources = q.resources \ o.resources
                                      /\ d.expired_at = o.expired_at

\* C10 witness: {X} held until 200, {X, Y} requested until 300: the
\* application asks for {Y} until 200
C10_Witness ==
    /\ app.pc = "applied"
    /\ \E q \in app.requested, o \in OldOfApplicant :
          /\ q.action_id = "view" /\ o.action_id = "view"
          /\ o.resources = {X} /\ o.expired_at = 200
          /\ q.resources = {X, Y} /\ q.expired_at = 300
          /\ \E d \in app.result.policies :
                d.action_id = "view" /\ d.resources = {Y} /\ d.expired_at = 200

\* C11: check_grant_policies_without_update fails exactly when an action of
\* the submitted policies is among the actions the group already holds in the
\* system; with submitted actions disjoint from the held ones it passes.
C11_FailsExactlyOnHeldAction ==
    chk.op = "check_grant_policies_without_update"
        => LET req == {q.action_id : q \in chk.input} IN
           (chk.err # NoErr) <=> (req \cap HeldActions(ApplyGroup, "s1") # {})

\* a submitted action that is not what its system declares: unknown id, a
\* list of another length, or another resource type at some position
Undeclared(system_id, a) ==
    \/ a.id \notin DOMAIN SvcActions(system_id)
    \/ LET declared == SvcActions(system_id)[a.id] IN
       \/ Len(a.related_resource_types) # Len(declared)
       \/ \E i \in DOMAIN declared : a.related_resource_types[i] # declared[i]

\* C20: ActionCheckBiz.check raises a validation error exactly when some
\* submitted action does not exist in the system, or its related resource
\* types differ from the declared ones in number or at some position; a list
\* holding the declared types in another order is refused, not reordered.
C20_ActionCheckExact ==
    (chk.pc = "checked" /\ chk.op = "check")
        => /\ (chk.err # NoErr) <=> (\E i \in DOMAIN chk.input : Undeclared("s1", chk.input[i]))
           /\ chk.err.code \in {"", "VALIDATE_ERROR", "ACTION_VALIDATE_ERROR"}

\* C20 witness: "edit" submitted with its two declared types swapped was
\* refused
C20_Witness ==
    /\ chk.pc = "checked" /\ chk.op = "check"
    /\ chk.input = <<ActionForCheck("edit", <<RelatedResourceType("s1", "module"),
                                             RelatedResourceType("s1", "host")>>)>>
    /\ chk.err.code = "ACTION_VALIDATE_ERROR"

\* the mirror rows a delete_by_ids call names: those of its system and
\* subject whose policy_id is among the given ids
NamedRows == {r \in alt.before.policies :
                 OfSubject(r, alt.system_id, alt.subject) /\ r.policy_id \in alt.delete_ids}

\* C19: a delete_by_ids call that returns has removed from the mirror exactly
\* the rows of its system and subject whose policy_id is in the given set, all
\* other rows being as before; a call whose backend delete failed has removed
\* no row.
C19_DeleteByIdsExact ==
    /\ alt.pc = "done" => policies = alt.before.policies \ NamedRows
    /\ (alt.pc = "failed" /\ alt.stage = "backend") => policies = alt.before.policies

\* C19 witness: a call returned that removed a row, while a row of another
\* subject whose policy_id was among the given ids is still there
C19_Witness ==
    /\ alt.pc = "done"
    /\ NamedRows # {}
    /\ \E r \in policies : r.policy_id \in alt.delete_ids /\ r.system_id = alt.system_id

\* C13: no step of a GroupBiz.grant call changes the mirror Policy table or
\* the backend store; in a behaviour of grant requests and task runs the
\* mirror changes only in the step in which the task runner takes a
\* dispatched task.
C13_GrantWritesNoPolicy ==
    [][/\ \A p \in Procs : Stepped(p) => (policies' = policies /\ backend' = backend)
       /\ (policies' # policies \/ backend' # backend) => delayed' # delayed /\ delayed' \subseteq delayed]_vars

\* C13 witness: a custom grant has returned, its lock row and task are
\* stored and dispatched, and the mirror and the backend hold no policy yet
C13_Witness ==
    \E p \in Procs :
        /\ pc[p] = "done"
        /\ task[p] \in delayed
        /\ \E l \in LocksOf(p) : l.template_id = 0 /\ l.data # {}
        /\ policies = {} /\ backend = {}

\* C17: the step that commits a grant call stores exactly one TaskDetail
\* record, whatever the number of entries; its payload is the call's subject
\* and uuid, every lock row stored with it carries that uuid, and no other
\* call has that uuid.  No other step of a grant call stores a task record.
C17_OneTaskOneKey ==
    [][\A p \in Procs :
         /\ (pc[p] = "commit" /\ pc'[p] = "dispatch")
              => /\ \E t \in tasks' : /\ tasks' \ tasks = {t}
                                      /\ t.args = <<GrantSubject(p), uuid[p]>>
                 /\ Cardinality(locks' \ locks) = Len(built[p])
                 /\ \A l \in locks' \ locks : l.key = uuid[p]
                 /\ \A l \in locks : l.key # uuid[p]
                 /\ \A q \in Procs \ {p} : uuid[q] # uuid[p]
         /\ (Stepped(p) /\ ~(pc[p] = "commit" /\ pc'[p] = "dispatch")) => tasks' = tasks]_vars

\* C17 witness: a batch of two entries is committed: two lock rows and one
\* task record carry its uuid, while rows of an earlier call are stored too
C17_Witness ==
    \E p \in Procs :
        /\ pc[p] = "dispatch"
        /\ Cardinality(LocksOf(p)) = 2
        /\ Cardinality(TasksOf(p)) = 1
        /\ locks \ LocksOf(p) # {}

\* the messages of the two conflicts: an authorization in flight, an action
\* the group already holds
ConflictMessages == {"already authorizing", "action exists"}

\* C18: a grant refused for a conflict carries an error category other than
\* VALIDATE_ERROR, the category of the resource-name and role-scope failures
\* (line 455).
C18_ConflictCategoryDistinct ==
    \A p \in Procs :
        (pc[p] = "failed" /\ err[p].msg \in ConflictMessages) => err[p].code # "VALIDATE_ERROR"

\* a stored lock row of group g for a permission source that batch ts names
Blocking(g, ts) ==
    \E l \in locks :
        /\ l.group_id = g
        /\ \/ l.template_id # 0 /\ NamesTemplate(ts, l.template_id)
           \/ l.template_id = 0 /\ \E i \in DOMAIN ts : ts[i].template_id = 0
                                                       /\ ts[i].system_id = l.system_id

\* a template batch ts names is being updated
Updating(ts) ==
    \E i \in DOMAIN ts : ts[i].template_id # 0 /\ ts[i].template_id \in preUpdateLocks

\* C15: whatever lock rows are stored, a request of group g passes the
\* pre-check when none of them is a row of g for a template or a custom
\* system the batch names (and no named template is being updated): rows of
\* g for other templates or systems and rows of other groups do not block it;
\* a request that then passes its validations stores one lock row per entry.
C15_LocksScopedPerSource ==
    /\ [](\A g \in LockedGroups, ts \in SeqsUpTo(PreCheckEntries, MaxBatch) :
             (~Blocking(g, ts) /\ ~Updating(ts)) => check_before_grant(g, ts) = NoErr)
    /\ [][\A p \in Procs :
            /\ (pc[p] = "idle" /\ pc'[p] = "failed" /\ err'[p].msg = "already authorizing")
                 => \E l \in locks : l.group_id = group'[p]
            /\ (pc[p] = "commit" /\ pc'[p] = "dispatch")
                 => \A i \in DOMAIN templates[p] :
                       \E l \in locks' \ locks :
                           /\ l.group_id = group[p]
                           /\ l.template_id = templates[p][i].template_id
                           /\ l.system_id = templates[p][i].system_id]_vars

\* C15 witness: group 7 has committed locks for template 9 and for custom
\* policies of s2 while its locks for template 3 and custom s1, and the locks
\* of group 8 for template 9 and custom s2, are stored
C15_Witness ==
    /\ pc["r1"] = "dispatch"
    /\ group["r1"] = 7
    /\ EarlierLocks \subseteq locks
    /\ \E l \in LocksOf("r1") : l.template_id = 9
    /\ \E l \in LocksOf("r1") : l.template_id = 0 /\ l.system_id = "s2"

\* C16: the pre-check refuses a batch for a template update exactly when a
\* PermTemplatePreUpdateLock exists for a non-zero template_id the batch
\* names; entries with template_id 0 never bring that refusal about.
C16_PreUpdateLockBlocksTemplates ==
    /\ [](\A g \in LockedGroups, ts \in SeqsUpTo(PreCheckEntries, MaxBatch) :
             /\ Updating(ts) => check_before_grant(g, ts) =
                                   Err("pre_check", "VALIDATE_ERROR", "template updating")
             /\ ~Updating(ts) => check_before_grant(g, ts).msg # "template updating")
    /\ [][\A p \in Procs :
            (pc[p] = "idle" /\ pc'[p] = "gen") => ~Updating(templates'[p])]_vars

\* C16 witness: a batch of custom entries passed the pre-check while every
\* template was being updated
C16_Witness ==
    /\ pc["r1"] = "gen"
    /\ preUpdateLocks = TemplateIds
    /\ \A i \in DOMAIN templates["r1"] : templates["r1"][i].template_id = 0

\* the step is the task runner taking the dispatched task with this key
TaskRunnerTakes(key) ==
    \E t \in tasks : t.args[2] = key /\ t.id \in delayed /\ t.id \notin delayed'

\* C12: a stored GroupAuthorizeLock row stays in the table, unchanged, in
\* every step of grant, update_policies, delete, create_and_add_members and
\* batch_create; it goes only in the step in which the task runner takes the
\* task of its key.
C12_RequestPathKeepsLocks ==
    [][\A l \in locks : l \in locks' \/ TaskRunnerTakes(l.key)]_vars

\* C12 witness: a group has been deleted while a lock row is stored
C12_Witness ==
    /\ del.pc = "done"
    /\ locks # {}

\* C14: the step in which GroupBiz.delete runs its transaction leaves the
\* mirror Policy table as it is (mirror rows being written by the Policy
\* Operation Service alone).
C14_DeleteLeavesMirrorToService ==
    [][(del.pc = "tx" /\ del'.pc # "tx") => policies' = policies]_vars

\* the mirror writes an alter call asks for are in its transaction: a row with
\* the placeholder id for every created policy, the new resources on every
\* updated row, no row left with a deleted policy_id
WritesStaged ==
    /\ \A p \in alt.create :
          \E r \in alt.tx \ alt.before.policies :
              /\ OfSubject(r, alt.system_id, alt.subject)
              /\ r.action_id = p.action_id /\ r.policy_id = 0 /\ r.resources = p.resources
    /\ \A p \in alt.update : \A r \in alt.tx :
          (OfSubject(r, alt.system_id, alt.subject) /\ r.policy_id = p.policy_id
              /\ r.action_id = p.action_id) => r.resources = p.resources
    /\ \A r \in alt.tx :
          OfSubject(r, alt.system_id, alt.subject) => r.policy_id \notin alt.delete_ids

\* C21: within one alter call the mirror inserts, patches and deletes are
\* all made, inside the open transaction, by the time the backend is called;
\* the backend is called only inside that transaction; and
\* _sync_db_policy_id runs only after that transaction has committed.
C21_MirrorBeforeBackendThenSync ==
    /\ [](alt.pc \in {"tx", "commit"} => policies = alt.before.policies)
    /\ [][/\ (alt.pc = "tx" /\ alt'.pc # "tx") => WritesStaged
          /\ (backend' # backend) => (alt.pc = "tx")
          /\ (alt'.synced /\ ~alt.synced)
                => (alt.pc = "sync" /\ alt.outcome = "ok" /\ policies = alt.tx)
          /\ (alt'.pc = "sync") => (alt.pc = "commit" /\ policies' = alt.tx)]_vars

\* C21 witness: a call that created, updated and deleted policies has
\* returned after its synchronisation
C21_Witness ==
    /\ alt.pc = "done"
    /\ alt.create # {} /\ alt.update # {} /\ alt.delete_ids # {}
    /\ alt.synced
    /\ alt.tx # alt.before.policies

\* a policy without its expiration
Grant(b) == [action_id |-> b.action_id, resources |-> b.resources]

\* C22: in every turn of _gen_grant_lock the entry still carries the
\* submitted expirations while its checks run; only a turn in which the
\* action check, the resource-name check and the role scope check have passed
\* sets them, and then every policy of the entry, and every policy of the
\* lock's data, which holds exactly the entry's policies, expires at the
\* permanent value.  A turn that fails builds no lock.
C22_PermanentOnlyAfterChecks ==
    [][\A p \in Procs :
         (pc[p] = "gen" /\ Stepped(p)) =>
            LET t == templates[p][idx[p]] IN
            /\ \A b \in t.policies : b.expired_at \in SubmittedExpiredAts
            /\ (pc'[p] = "failed") => (err'[p].stage = "validation" /\ built'[p] = <<>>)
            /\ (pc'[p] # "failed") =>
                  /\ gen_grant_lock_action_check(GrantSubject(p), t) = NoErr
                  /\ \A b \in templates'[p][idx[p]].policies : b.expired_at = PERMANENT_SECONDS
                  /\ Len(built'[p]) = idx[p]
                  /\ \A b \in built'[p][idx[p]].data : b.expired_at = PERMANENT_SECONDS
                  /\ {Grant(b) : b \in built'[p][idx[p]].data} = {Grant(b) : b \in t.policies}]_vars

\* C22 witness: both entries of a batch, a template entry of two policies
\* among them, have passed their checks and their locks are built
C22_Witness ==
    \E p \in Procs :
        /\ pc[p] = "commit"
        /\ Len(built[p]) = 2
        /\ \E i \in DOMAIN built[p] : Cardinality(built[p][i].data) = 2
        /\ \A i \in DOMAIN built[p] : \A b \in built[p][i].data : b.expired_at = PERMANENT_SECONDS

\* the backend policies of the action of mirror row r, for the subject of the
\* alter call under way
BackendOf(r) == backend_policy_get(backend, alt.system_id, alt.subject, r.action_id)

Placeholder(r) == OfSubject(r, alt.system_id, alt.subject) /\ r.policy_id = 0

\* C23: the step in which _sync_db_policy_id runs gives every mirror row of
\* the call's system and subject that carries the placeholder 0, and whose
\* action has a backend policy, that policy's identifier, and leaves every
\* other row (placeholder rows without a backend policy, rows with a non-zero
\* policy_id, rows of other subjects) as it is; so after an alter with a
\* non-empty create set has returned, a row of the subject still carrying 0
\* has no backend policy.
C23_SyncPlaceholderIds ==
    /\ []((alt.pc = "done" /\ alt.create # {}) =>
             /\ alt.synced
             /\ \A r \in policies : Placeholder(r) => BackendOf(r) = {})
    /\ [][(alt.pc = "sync" /\ alt'.pc = "done") =>
             /\ Cardinality(policies') = Cardinality(policies)
             /\ \A r \in policies :
                   IF Placeholder(r) /\ BackendOf(r) # {}
                   THEN \E b \in BackendOf(r) : [r EXCEPT !.policy_id = b.id] \in policies'
                   ELSE r \in policies']_vars

\* C23 witness: a synchronisation has given a created row its identifier
\* while a placeholder row left by an earlier call, whose action has no
\* backend policy any more, is in the mirror
C23_Witness ==
    /\ alt.pc = "done" /\ alt.create # {} /\ alt.synced
    /\ \E r \in policies \cap alt.before.policies : Placeholder(r)
    /\ \E r \in policies \ alt.tx : r.policy_id # 0

\* the instances a requested list adds to an old one: those the old policy
\* of the same action does not hold
Added(requested, old) ==
    UNION {q.resources \ UNION {o.resources : o \in {x \in old : x.action_id = q.action_id}} :
              q \in requested}

\* the old policies check_update_policies_resource_name had for its call
OldOfUpdate ==
    IF chk.input.template_id = 0 THEN list_by_subject("s1", Subject(GROUP, ApplyGroup))
    ELSE chk.input.authorized

\* the instances from_role_data has to check for one system
RoleChecked(system_id) ==
    IF chk.input.old # <<>> /\ system_id \in DOMAIN chk.input.old
    THEN Added(chk.input.data[system_id], chk.input.old[system_id])
    ELSE InstancesOf(chk.input.data[system_id])

\* C24: where old policies are at hand (GroupBiz.update_policies, the
\* application path, a role update) the name check fails exactly when an
\* instance the request adds to the old policies has a changed name; an
\* instance already granted for the same action never makes it fail,
\* whatever its name.  from_role_data checks everything submitted only for a
\* system that has no old scopes.
C24_NameCheckOnAddedOnly ==
    /\ (chk.pc = "checked" /\ chk.op = "check_update_policies_resource_name") =>
          ((chk.err # NoErr) <=> (Added(chk.input.requested, OldOfUpdate) \cap chk.input.renamed # {}))
    /\ (chk.pc = "checked" /\ chk.op = "from_role_data") =>
          ((chk.err # NoErr) <=>
              (\E system_id \in DOMAIN chk.input.data : RoleChecked(system_id) \cap chk.input.renamed # {}))
    /\ (app.pc = "applied") =>
          ((app.result.msg = "resource name") <=>
              (Added(app.requested, OldOfApplicant) \cap app.renamed # {}))

\* C24 witness: the group holds view on {X}, X has been renamed, and an
\* update of view to {X, Y} has passed the name check
C24_Witness ==
    /\ chk.pc = "checked" /\ chk.op = "check_update_policies_resource_name"
    /\ chk.input.template_id = 0
    /\ chk.input.renamed = {X}
    /\ \E q \in chk.input.requested : q.action_id = "view" /\ q.resources = {X, Y}
    /\ \E o \in OldOfUpdate : o.action_id = "view" /\ o.resources = {X}
    /\ chk.err = NoErr

\* the applicant holds an unexpired policy of q's action with every instance
\* q names
HeldUnexpired(q) ==
    \E o \in OldOfApplicant :
        o.action_id = q.action_id /\ ~is_expired(o, app.now) /\ q.resources \subseteq o.resources

\* the applicant's policy of q's action is missing or expired
MissingOrExpired(q) ==
    \A o \in OldOfApplicant : o.action_id = q.action_id => is_expired(o, app.now)

\* C25: _gen_need_apply_policy_list raises the zero-delta INVALID_ARGS error
\* exactly when every requested policy has an unexpired existing policy of
\* its action that already holds all its instances; a requested policy whose
\* existing policy is missing or expired is in the application as submitted,
\* so with such a policy in the request the error is not raised and a
\* returned application is never empty.
C25_ZeroDeltaExactlyWhenEmpty ==
    (app.pc = "applied") =>
        /\ (app.result.error = "INVALID_ARGS") <=> (\A q \in app.requested : HeldUnexpired(q))
        /\ (app.result.error = "") =>
              /\ app.result.policies # {}
              /\ \A q \in app.requested : MissingOrExpired(q) => q \in app.result.policies
        /\ (\E q \in app.requested : MissingOrExpired(q)) => app.result.error # "INVALID_ARGS"

\* C25 witness: one requested policy repeats an expired policy and is applied
\* for whole, the other repeats an unexpired one and is left out
C25_Witness ==
    /\ app.pc = "applied" /\ app.result.error = ""
    /\ \E q \in app.requested :
          /\ HeldUnexpired(q)
          /\ BeanListGet(app.result.policies, q.action_id) = {}
    /\ \E q \in app.requested, o \in OldOfApplicant :
          /\ o.action_id = q.action_id /\ is_expired(o, app.now)
          /\ q.resources \subseteq o.resources
          /\ app.result.policies = {q}

\* what the provider of a fetch call returns for a list of ids
FromProvider(ids) == fetch_instance_info(ids, fetch.provider)

\* C26: a fetch_instance_name call fails only when the resource provider
\* raises, never for the cache.  When the pipeline raised in get, every
\* requested id is taken for not cached and the result is what the provider
\* returns for all of them; when it raised in set, the call returns the
\* entries taken from the cache followed by what the provider returned.
C26_CacheFailureNeverFailsCaller ==
    /\ (fetch.pc = "failed") => fetch.provider_error
    /\ (fetch.pc \in {"provider", "done", "failed"} /\ fetch.get_error) =>
          fetch.not_cached_ids = DictKeys(fetch.ids)
    /\ (fetch.pc = "done" /\ fetch.get_error) => fetch.results = FromProvider(DictKeys(fetch.ids))
    /\ (fetch.pc = "done" /\ fetch.set_error) =>
          fetch.results = cached_results(fetch.cache_id_name_map, fetch.ids)
                             \o FromProvider(fetch.not_cached_ids)

\* C26 witness: the pipeline raised in get and in set, the cache held names
\* of the requested ids, and the call returned the provider's entries
C26_Witness ==
    /\ fetch.pc = "done"
    /\ fetch.get_error /\ fetch.set_error
    /\ \E i \in DOMAIN fetch.ids : id_name_cache[fetch.ids[i]] \notin {NONE, ""}
    /\ Len(fetch.results) = Len(DictKeys(fetch.ids))
    /\ Len(fetch.results) >= 2

\* the number of entries of a result list for id
EntriesOf(results, id) == Cardinality({i \in DOMAIN results : results[i].id = id})

\* C30: fetch_instance_name returns exactly one entry for every requested id
\* that has a cached name, whatever the string, or that the provider returns,
\* no entry for any other id, and asks the provider for exactly the ids the
\* cache has no entry for.
C30_OneEntryPerKnownId ==
    (fetch.pc = "done") =>
        LET requested == {fetch.ids[i] : i \in DOMAIN fetch.ids}
            cached == {id \in requested : fetch.cache_id_name_map[id] # NONE} IN
        /\ {fetch.not_cached_ids[i] : i \in DOMAIN fetch.not_cached_ids} = requested \ cached
        /\ \A id \in Instances :
              EntriesOf(fetch.results, id) =
                 IF id \in cached \/ (id \in requested /\ fetch.provider[id] # NONE) THEN 1 ELSE 0

\* C27: a group is not deleted while an authorization for it is in flight:
\* under every interleaving of delete and grant, every stored
\* GroupAuthorizeLock row is a row of a group that exists.
C27_NoLockOfDeletedGroup ==
    \A l \in locks : l.group_id \in groups

\* C28: when GroupBiz.grant fails on an entry of its batch, every policy of
\* every entry of the request still expires when it was submitted to.  (A
\* failing turn of _gen_grant_lock raises before it writes; the request
\* objects the caller is left with are those the turn found.)
C28_FailedGrantLeavesRequestAsSubmitted ==
    [][\A p \in Procs :
         (pc[p] = "gen" /\ pc'[p] = "failed") =>
            \A i \in DOMAIN templates[p] : \A b \in templates[p][i].policies :
                b.expired_at \in SubmittedExpiredAts]_vars

\* the stored lock rows that carry the key of task record t
LocksOfTask(t) == {l \in locks : l.key = t.args[2]}

\* C29: a task is handed to TaskFactory().delay only by a call whose
\* transaction has committed: in that step the task record and one lock row
\* per entry of the batch are stored; so every dispatched task the runner
\* has not taken yet has its record and lock rows stored.  A call whose
\* dispatch fails leaves its lock rows and its task record stored.
C29_DispatchAfterCommit ==
    /\ [](\A tid \in delayed : \E t \in tasks : t.id = tid /\ LocksOfTask(t) # {})
    /\ [][\A p \in Procs :
            /\ (Stepped(p) /\ delayed' # delayed) =>
                  /\ pc[p] = "dispatch"
                  /\ delayed' = delayed \cup {task[p]}
                  /\ \E t \in tasks : t.id = task[p] /\ t.args = <<GrantSubject(p), uuid[p]>>
                  /\ Cardinality(LocksOf(p)) = Len(built[p])
            /\ (pc[p] = "dispatch" /\ pc'[p] = "failed") =>
                  /\ locks' = locks /\ tasks' = tasks
                  /\ Cardinality({l \in locks' : l.key = uuid[p]}) = Len(built[p])
                  /\ \E t \in tasks' : t.id = task[p]]_vars

\* C29 witness: the dispatch of a committed batch of two entries failed; its
\* two lock rows and its task record are stored and the task is not dispatched
C29_Witness ==
    \E p \in Procs :
        /\ pc[p] = "failed" /\ err[p].stage = "dispatch"
        /\ Cardinality(LocksOf(p)) = 2
        /\ Cardinality(TasksOf(p)) = 1
        /\ task[p] \notin delayed
====
